---- MODULE Spec2Model ----
(***************************************************************************)
(* Effect-size extraction-and-consensus pipeline.                          *)
(*                                                                         *)
(* SpecSynth  : the three synthesis steps of ConsensusBuilder              *)
(*              (phase4_consensus.py) applied to every combination of      *)
(*              three model results drawn from ModelResultDomain.          *)
(* SpecBatch  : ConsensusBuilder.process_all_studies, the per-study loop   *)
(*              with its per-model try/except and its persistence.         *)
(* SpecQA     : run_qa_final and QAFinalChecker.run_all_gates              *)
(*              (phase6_qa_final.py).                                      *)
(* SpecCalc   : EffectSizeCalculator.extract_effect_size                   *)
(*              (utils/effect_size_calculator.py) applied to every record  *)
(*              of DataDomain.                                             *)
(* SpecMeta   : cochrans_q, tau_squared_dl and the three copies of         *)
(*              random_effects_meta applied to every array of StudyArrays. *)
(* SpecEgger  : eggers_test (generate_funnel_plots.py).                    *)
(* SpecTrim   : trim_and_fill (generate_funnel_plots.py), round by round;  *)
(*              SpecTrimFair adds that the function keeps running.         *)
(* SpecKappa  : cohens_kappa (phase5_human_icr.py).                        *)
(* SpecPipeline : PipelineOrchestrator.run_all (run_pipeline.py).          *)
(*                                                                         *)
(* Numbers of the builder are integers in units of 1e-4 (the precision it  *)
(* rounds to), so 5000 stands for 0.5000; the calculator's floats are      *)
(* fixed-point values in units of 1/Scale together with nan and the two    *)
(* infinities.                                                             *)
(***************************************************************************)
EXTENDS Integers, Sequences, FiniteSets, TLC

VARIABLES
    \* ---- ConsensusBuilder.build_consensus (locals) ----
    model_results,        \* model name -> result mapping (lines 128-146)
    agreement_analysis,   \* line 148
    consensus_effects,    \* line 149
    consensus_agent,      \* line 150
    pc,                   \* position inside build_consensus / the batch loop
    \* ---- ConsensusBuilder.process_all_studies ----
    extracted,            \* the *.json files under extracted_dir
    study_ids,            \* ids still to be iterated (line 322)
    study_id,             \* the id of the current iteration ("": none)
    results,              \* line 321, as the two counts the summary reads from it
    persisted,            \* ids whose {id}_consensus.json has been written
    attempted,            \* ids the loop has started on
    summary,              \* consensus_summary.json (line 357), NoSummary before
    \* ---- run_qa_final / QAFinalChecker.run_all_gates ----
    consensus_dir,        \* the consensus records under paths.verified
    df,                   \* the dataset, a sequence of rows
    df_loaded,            \* the rows as load_consensus_data returned them
    gate_results,         \* line 337
    all_passed,           \* line 338
    gate_idx,             \* position in self.gates (1..6, 7 after the loop)
    qa_report,            \* line 350, NoReport before
    exported,             \* the rows of the exported final dataset
    qa_result,            \* what run_qa_final returns, NoResult before
    \* ---- EffectSizeCalculator.extract_effect_size ----
    data,                 \* the argument, a mapping from field names to values
    es_result,            \* the returned result mapping, NoExtraction before the call
    \* ---- the random-effects engine and its copies (src/analysis, figure_generation) ----
    studies,              \* the arrays g and se, a sequence of [g, se] records
    meta,                 \* function name -> the mapping it returned
    \* ---- generate_funnel_plots.py: eggers_test ----
    scipy,                \* whether `from scipy import stats` succeeds
    egger,                \* what eggers_test returned, NoEgger before the call
    \* ---- generate_funnel_plots.py: trim_and_fill (arguments and locals) ----
    side,                 \* 'left' or 'right'
    max_iter,             \* the round limit
    k0,                   \* line 134
    k0_prev,              \* line 133
    iteration,            \* estimation rounds done so far (line 136)
    studies_adj,          \* g_adj and se_adj (lines 183-184), as studies
    trim_result,          \* what trim_and_fill returned, NoTrim before
    \* ---- phase5_human_icr.py: cohens_kappa ----
    rater1, rater2,       \* the two lists of ratings
    kappa,                \* what cohens_kappa returned, NoKappa before the call
    \* ---- run_pipeline.py: PipelineOrchestrator.run_all ----
    start_phase, end_phase,   \* the arguments
    phase_num,            \* the loop variable of line 156
    phases_run,           \* the phase functions called so far, with what they did
    reports,              \* the calls of _generate_final_report
    run_all_result        \* what run_all returned, NoRunAll before

synthVars == <<model_results, agreement_analysis, consensus_effects, consensus_agent, pc>>
batchVars == <<extracted, study_ids, study_id, results, persisted, attempted, summary>>
qaVars    == <<consensus_dir, df, df_loaded, gate_results, all_passed, gate_idx, qa_report,
               exported, qa_result>>
calcVars  == <<data, es_result>>
metaVars  == <<studies, meta>>
funnelVars == <<scipy, egger>>
trimVars   == <<side, max_iter, k0, k0_prev, iteration, studies_adj, trim_result>>
kappaVars  == <<rater1, rater2, kappa>>
pipeVars   == <<start_phase, end_phase, phase_num, phases_run, reports, run_all_result>>
analysisVars == <<metaVars, funnelVars, trimVars, kappaVars, pipeVars>>
vars      == <<synthVars, batchVars, qaVars, calcVars, analysisVars>>
synthVarsButPc == <<model_results, agreement_analysis, consensus_effects, consensus_agent>>

-----------------------------------------------------------------------------
(* JSON values *)

\* JSON null / Python None, a JSON number, a JSON string where a number is expected
Null     == [kind |-> "null", val |-> 0]
Num(n)   == [kind |-> "num",  val |-> n]
StrVal   == [kind |-> "str",  val |-> 0]
IsNum(v) == v.kind = "num"

\* Agent-characteristic values: a category (by code), a list of categories, or None
ANull      == [kind |-> "null", items |-> << >>]
ACat(c)    == [kind |-> "str",  items |-> <<c>>]
AList(s)   == [kind |-> "list", items |-> s]
ATuple(s)  == [kind |-> "tuple", items |-> s]

RECURSIVE SumSeq(_)
SumSeq(s) == IF s = << >> THEN 0 ELSE Head(s) + SumSeq(Tail(s))

RECURSIVE Insert(_, _)
Insert(x, s) ==
    IF s = << >> THEN <<x>>
    ELSE IF x <= Head(s) THEN <<x>> \o s
    ELSE <<Head(s)>> \o Insert(x, Tail(s))

RECURSIVE Sorted(_)
Sorted(s) == IF s = << >> THEN << >> ELSE Insert(Head(s), Sorted(Tail(s)))

RECURSIVE Flatten(_)
Flatten(ss) == IF ss = << >> THEN << >> ELSE Head(ss) \o Flatten(Tail(ss))

Count(s, x) == Cardinality({i \in 1..Len(s) : s[i] = x})

Range(s) == {s[i] : i \in 1..Len(s)}

-----------------------------------------------------------------------------
(* ConsensusBuilder *)

\* build_consensus line 129: the fixed iteration order, which is also the
\* insertion order of model_results
Models == <<"claude", "gpt4o", "groq">>

Fields == <<"oversight_level", "architecture", "agency_level",
            "role", "modality", "technology", "adaptivity">>

\* es.get('outcome_label', 'unknown') for an entry without the key
NoLabel == "<absent>"
LabelOf(es) == IF es.outcome_label = NoLabel THEN "unknown" ELSE es.outcome_label

\* {'error': str(e)}: the entry written by the except branch of build_consensus
ErrorResult ==
    [error |-> TRUE, verified_effect_sizes |-> << >>,
     verified_agent_characteristics |-> [f \in Range(Fields) |-> ANull],
     confidence |-> "", concerns |-> 0]

\* `'error' in result` (lines 173, 209, 277)
HasErrorNever(result) == FALSE
HasError(result) == result.error

(* ---- _analyze_agreement (lines 162-192) ---- *)

SuccessfulModels(mr) == SelectSeq(Models, LAMBDA m : ~HasError(mr[m]))

\* Counter(xs).most_common(1)[0]: Counter keeps first-insertion order and
\* heapq.nlargest(1, ...) is max(), which returns the first maximal item
MaxCount(xs) == CHOOSE c \in 1..Len(xs) :
    /\ \E i \in 1..Len(xs) : Count(xs, xs[i]) = c
    /\ \A i \in 1..Len(xs) : Count(xs, xs[i]) <= c

MostCommonIdxLast(xs) == CHOOSE i \in 1..Len(xs) :
    /\ Count(xs, xs[i]) = MaxCount(xs)
    /\ \A j \in (i+1)..Len(xs) : xs[j] # xs[i] => Count(xs, xs[j]) < MaxCount(xs)
    /\ \A j \in 1..(i-1) : xs[j] # xs[i]

MostCommonIdxFirstValue(xs) == 1

MostCommonIdx(xs) == CHOOSE i \in 1..Len(xs) :
    /\ Count(xs, xs[i]) = MaxCount(xs)
    /\ \A j \in 1..(i-1) : Count(xs, xs[j]) < MaxCount(xs)

analyze_agreement(mr) ==
    LET successful_models == SuccessfulModels(mr)
        withConf    == SelectSeq(successful_models, LAMBDA m : mr[m].confidence # "")
        confidences == [i \in 1..Len(withConf) |-> mr[withConf[i]].confidence]
        concerns    == [i \in 1..Len(successful_models) |-> mr[successful_models[i]].concerns]
    IN  [n_models_completed    |-> Len(successful_models),
         models_completed      |-> successful_models,
         confidence_values     |-> confidences,
         modal_confidence      |-> IF confidences # << >>
                                   THEN confidences[MostCommonIdx(confidences)] ELSE "",
         total_concerns_raised |-> SumSeq(concerns),
         high_confidence       |-> IF confidences # << >>
                                   THEN \A i \in 1..Len(confidences) : confidences[i] = "high"
                                   ELSE FALSE]

(* ---- _synthesize_effect_sizes (lines 194-256) ---- *)

\* lines 208-220: every entry of every non-errored model, in iteration order
ModelEntries(mr, m) ==
    IF HasError(mr[m]) THEN << >>
    ELSE [i \in 1..Len(mr[m].verified_effect_sizes) |->
            [model    |-> m,
             label    |-> LabelOf(mr[m].verified_effect_sizes[i]),
             hedges_g |-> mr[m].verified_effect_sizes[i].hedges_g,
             se_g     |-> mr[m].verified_effect_sizes[i].se_g]]

AllEntries(mr) == Flatten([k \in 1..Len(Models) |-> ModelEntries(mr, Models[k])])

\* the keys of label_effects in insertion order
LabelOrder(entries) ==
    LET firsts == SelectSeq([i \in 1..Len(entries) |-> i],
                            LAMBDA i : \A j \in 1..(i-1) : entries[j].label # entries[i].label)
    IN  [k \in 1..Len(firsts) |-> entries[firsts[k]].label]

\* label_effects[label]
LabelValues(entries, label) == SelectSeq(entries, LAMBDA e : e.label = label)

\* line 225
ValidValuesAll(values) == values
ValidValues(values) == SelectSeq(values, LAMBDA v : v.hedges_g # Null)

\* line 230
GValues(valid_values) == [i \in 1..Len(valid_values) |-> valid_values[i].hedges_g.val]

\* line 231
SeValues(values, valid_values) ==
    LET withSe == SelectSeq(valid_values, LAMBDA v : v.se_g # Null)
    IN  [i \in 1..Len(withSe) |-> withSe[i].se_g.val]

\* round(x, 4) of x = s/n in units of 1e-4: the nearest integer.  A decimal tie
\* is decided by the representation error of the binary float, so either
\* neighbour can result.
RoundSet(s, n) ==
    LET q == s \div n
        r == s % n
    IN  IF 2 * r < n THEN {q} ELSE IF 2 * r > n THEN {q + 1} ELSE {q, q + 1}

\* lines 236-244
QualityOf(n_models) ==
    IF n_models = 3 THEN [quality |-> "3/3_agree", flag |-> "None"]
    ELSE IF n_models = 2 THEN [quality |-> "2/3_agree", flag |-> "majority_consensus"]
    ELSE [quality |-> "1/3_only", flag |-> "human_review_needed"]

\* lines 224-254 for one kept label: the records the body can append
LabelRecords(entries, label) ==
    LET values       == LabelValues(entries, label)
        n_models     == Len(values)
        valid_values == ValidValues(values)
        g_values     == GValues(valid_values)
        se_values    == SeValues(values, valid_values)
        se_sum       == SumSeq(se_values)
        \* line 234 and the truthiness test of line 249: a mean of 0.0 is falsy
        se_choices   == IF se_values = << >> \/ se_sum = 0 THEN {Null}
                        ELSE {Num(x) : x \in RoundSet(se_sum, Len(se_values))}
    IN  {[outcome_label      |-> label,
          hedges_g_consensus |-> g,
          se_g_consensus     |-> se,
          g_values_per_model |-> g_values,
          n_models_agree     |-> n_models,
          consensus_quality  |-> QualityOf(n_models).quality,
          flag               |-> QualityOf(n_models).flag]
         : g \in RoundSet(SumSeq(g_values), Len(g_values)), se \in se_choices}

RECURSIVE Product(_)
Product(sets) ==
    IF sets = << >> THEN {<< >>}
    ELSE {<<h>> \o t : h \in Head(sets), t \in Product(Tail(sets))}

\* the lists _synthesize_effect_sizes can return for model_results = mr
synthesize_effect_sizes(mr) ==
    LET entries == AllEntries(mr)
        labels  == LabelOrder(entries)
        \* lines 227-228: `if not valid_values: continue`
        kept    == SelectSeq(labels,
                             LAMBDA l : ValidValues(LabelValues(entries, l)) # << >>)
    IN  Product([k \in 1..Len(kept) |-> LabelRecords(entries, kept[k])])

\* a hedges_g that is a JSON string makes sum(g_values) raise TypeError (line 233)
EffectSynthesisRaises(mr) ==
    \E i \in 1..Len(AllEntries(mr)) : AllEntries(mr)[i].hedges_g.kind = "str"

(* ---- _synthesize_agent_characteristics (lines 258-292) ---- *)

\* line 282: a list becomes the tuple of its sorted items
Normalise(val) == IF val.kind = "list" THEN ATuple(Sorted(val.items)) ELSE val
\* line 289
Denormalise(key) == IF key.kind = "tuple" THEN AList(key.items) ELSE key

\* lines 275-282
FieldValues(mr, field) ==
    LET reporting == SelectSeq(Models, LAMBDA m :
                        /\ ~HasError(mr[m])
                        /\ mr[m].verified_agent_characteristics[field] # ANull)
    IN  [i \in 1..Len(reporting) |->
            Normalise(mr[reporting[i]].verified_agent_characteristics[field])]

\* `{field}_agreement` is f"{count}/{len(values)}", kept as the pair <<count, len>>;
\* << >> when the key is not set (line 285)
FieldConsensus(mr, field) ==
    LET values == FieldValues(mr, field)
    IN  IF values = << >> THEN [value |-> ANull, agreement |-> << >>]
        ELSE LET i == MostCommonIdx(values)
             IN  [value     |-> Denormalise(values[i]),
                  agreement |-> <<Count(values, values[i]), Len(values)>>]

synthesize_agent_characteristics(mr) ==
    [f \in Range(Fields) |-> FieldConsensus(mr, f)]

-----------------------------------------------------------------------------
(* Inputs: the verification records a model can return *)

MaxG    == 2    \* hedges_g in 0..MaxG (units of 1e-4)
MaxSe   == 1    \* se_g in 0..MaxSe
NumCats == 3    \* category codes 1..NumCats

GOpt  == {Null} \cup {Num(n) : n \in 0..MaxG}
SeOpt == {Null} \cup {Num(n) : n \in 0..MaxSe}

ES(l, g, s) == [outcome_label |-> l, hedges_g |-> g, se_g |-> s]

EsLists ==
    {<< >>}
    \cup {<<ES("test1", g, s)>> : g \in GOpt, s \in SeOpt}
    \cup {<<ES("test1", Num(1), Num(1)), ES("test1", Num(MaxG), Num(1))>>,
          <<ES("test1", Null, Num(1)), ES("test1", Num(MaxG), Null)>>,
          <<ES("test2", Num(1), Num(1)), ES("test1", Num(0), Num(1))>>,
          <<ES("test2", Null, Num(1))>>,
          <<ES(NoLabel, Num(1), Num(0))>>}

UniformProfile(v) == [f \in Range(Fields) |-> v]
DefaultProfile == UniformProfile(ACat(1))

AgentVals ==
    {ANull} \cup {ACat(c) : c \in 1..NumCats} \cup {AList(<<1, 2>>), AList(<<2, 1>>)}

AgentProfiles ==
    {UniformProfile(v) : v \in AgentVals}
    \cup {[f \in Range(Fields) |-> IF f = "oversight_level" THEN ACat(c) ELSE ANull]
          : c \in 1..2}
    \cup {[f \in Range(Fields) |-> IF f \in {"modality", "technology"}
                                   THEN AList(<<2, 1>>) ELSE ACat(NumCats)]}

OkResult(es, agent, conf, nconcerns) ==
    [error |-> FALSE, verified_effect_sizes |-> es,
     verified_agent_characteristics |-> agent,
     confidence |-> conf, concerns |-> nconcerns]

\* a parsed response that itself carries an "error" key beside its data
ErrorWithData ==
    [error |-> TRUE,
     verified_effect_sizes |-> <<ES("test1", Num(MaxG), Num(1))>>,
     verified_agent_characteristics |-> UniformProfile(ACat(NumCats)),
     confidence |-> "low", concerns |-> 1]

ErrorResults == {ErrorResult, ErrorWithData}

EffectFamily == {OkResult(es, DefaultProfile, "high", 0) : es \in EsLists}
AgentFamily  == {OkResult(<<ES("test1", Num(1), Num(1))>>, p, "high", 0) : p \in AgentProfiles}
ConfFamily   == {OkResult(<<ES("test1", Num(1), Num(1))>>, DefaultProfile, c, k)
                 : c \in {"high", "moderate", "low", ""}, k \in {0, 2}}

ModelResultDomain ==
    [Range(Models) -> EffectFamily \cup ErrorResults]
    \cup [Range(Models) -> AgentFamily \cup ErrorResults]
    \cup [Range(Models) -> ConfFamily \cup ErrorResults]

-----------------------------------------------------------------------------
(* State before anything has run *)

NoAgreement == [n_models_completed |-> 0, models_completed |-> << >>,
                confidence_values |-> << >>, modal_confidence |-> "",
                total_concerns_raised |-> 0, high_confidence |-> FALSE]
NoAgent   == [f \in Range(Fields) |-> [value |-> ANull, agreement |-> << >>]]
NoSummary == [written |-> FALSE, n_studies_processed |-> 0, n_three_model_complete |-> 0]
NoResults == [n |-> 0, n_three |-> 0]
NoReport  == [written |-> FALSE, all_gates_passed |-> FALSE, gate_results |-> << >>]

BatchIdle ==
    /\ extracted = {} /\ study_ids = {} /\ study_id = ""
    /\ results = NoResults /\ persisted = {} /\ attempted = {} /\ summary = NoSummary

SynthIdle ==
    /\ model_results = << >> /\ agreement_analysis = NoAgreement
    /\ consensus_effects = << >> /\ consensus_agent = NoAgent

NoResult  == [returned |-> FALSE, success |-> FALSE, error |-> FALSE]

QAIdle ==
    /\ consensus_dir = << >> /\ df = << >> /\ df_loaded = << >> /\ gate_results = << >>
    /\ all_passed = TRUE /\ gate_idx = 0 /\ qa_report = NoReport
    /\ exported = << >> /\ qa_result = NoResult

NoExtraction == [returned |-> FALSE]

CalcIdle == data = << >> /\ es_result = NoExtraction

MetaIdle == studies = << >> /\ meta = << >>

NoEgger == [called |-> FALSE]

FunnelIdle == scipy = FALSE /\ egger = NoEgger

NoTrim == [returned |-> FALSE]

TrimIdle ==
    /\ side = "" /\ max_iter = 0 /\ k0 = 0 /\ k0_prev = 0 /\ iteration = 0
    /\ studies_adj = << >> /\ trim_result = NoTrim

NoKappa == [called |-> FALSE]

KappaIdle == rater1 = << >> /\ rater2 = << >> /\ kappa = NoKappa

NoRunAll == [returned |-> FALSE]

PipeIdle ==
    /\ start_phase = 0 /\ end_phase = 0 /\ phase_num = 0
    /\ phases_run = << >> /\ reports = << >> /\ run_all_result = NoRunAll

AnalysisIdle == MetaIdle /\ FunnelIdle /\ TrimIdle /\ KappaIdle /\ PipeIdle

-----------------------------------------------------------------------------
(* build_consensus lines 148-150 *)

AnalyzeAgreement ==
    /\ pc = "agreement"
    /\ agreement_analysis' = analyze_agreement(model_results)
    /\ pc' = "effects"
    /\ UNCHANGED <<model_results, consensus_effects, consensus_agent, batchVars, qaVars, calcVars, analysisVars>>

SynthesizeEffectSizes ==
    /\ pc = "effects"
    /\ ~EffectSynthesisRaises(model_results)
    /\ \E c \in synthesize_effect_sizes(model_results) : consensus_effects' = c
    /\ pc' = "agent"
    /\ UNCHANGED <<model_results, agreement_analysis, consensus_agent, batchVars, qaVars, calcVars, analysisVars>>

SynthesizeAgentCharacteristics ==
    /\ pc = "agent"
    /\ consensus_agent' = synthesize_agent_characteristics(model_results)
    /\ pc' = "built"
    /\ UNCHANGED <<model_results, agreement_analysis, consensus_effects, batchVars, qaVars, calcVars, analysisVars>>

InitSynth ==
    /\ model_results \in ModelResultDomain
    /\ agreement_analysis = NoAgreement
    /\ consensus_effects = << >>
    /\ consensus_agent = NoAgent
    /\ pc = "agreement"
    /\ BatchIdle
    /\ QAIdle
    /\ CalcIdle
    /\ AnalysisIdle

NextSynth ==
    \/ AnalyzeAgreement
    \/ SynthesizeEffectSizes
    \/ SynthesizeAgentCharacteristics

SpecSynth == InitSynth /\ [][NextSynth]_vars

-----------------------------------------------------------------------------
(* ConsensusBuilder.process_all_studies (lines 294-369) *)

NumStudies == 2
StudyNames == <<"s1", "s2", "s3", "s4">>
Studies    == {StudyNames[i] : i \in 1..NumStudies}

Dirs == {"study_info", "effect_sizes", "agent_codes"}
SuffixOf(dir) ==
    IF dir = "study_info" THEN "_study_info"
    ELSE IF dir = "effect_sizes" THEN "_effects" ELSE "_agent_codes"

\* A file dir/<base><suffix>.json; suffix is "" when the name ends in none of
\* the three per-study suffixes.  content: "object" (a JSON object), "list"
\* (a JSON array) or "corrupt" (not JSON, e.g. a truncated write).
File(dir, base, suffix, content) ==
    [dir |-> dir, base |-> base, suffix |-> suffix, content |-> content]

\* phase 1-3 extract_all / code_all: one file per study in each directory
StudyFiles(s, effects_content) ==
    {File("study_info", s, "_study_info", "object"),
     File("effect_sizes", s, "_effects", effects_content),
     File("agent_codes", s, "_agent_codes", "object")}

\* phase3 code_all lines 252-258: agent_coding_summary.json (an object) and
\* all_agent_codes.json (the list of all results), in the same directory.
\* Phases 1 and 2 write the like-named pairs into their directories.
Phase3Aggregates ==
    {File("agent_codes", "agent_coding_summary", "", "object"),
     File("agent_codes", "all", "_agent_codes", "list")}

\* lines 315-316: the stem with the per-study suffix removed
StemToId(f) == f.base

\* lines 311-317
ScannedIds(files) == {StemToId(f) : f \in files}

\* the file at dir / f"{id}{suffix}.json", if it exists
FileAt(files, dir, id) ==
    {f \in files : f.dir = dir /\ f.base = id /\ f.suffix = SuffixOf(dir)}

\* lines 326-343, which run outside the try of line 345: json.load raises on
\* a corrupt file, and es_data.get / agent_data.get raise on a JSON array
LoadRaises(files, id) ==
    \/ \E f \in FileAt(files, "study_info", id) : f.content = "corrupt"
    \/ \E f \in FileAt(files, "effect_sizes", id) : f.content \in {"corrupt", "list"}
    \/ \E f \in FileAt(files, "agent_codes", id) : f.content \in {"corrupt", "list"}

\* the verification records the models return in the batch
OkResponse == OkResult(<<ES("test1", Num(1), Num(1))>>, DefaultProfile, "high", 0)
\* parseable JSON whose hedges_g is a string
MalformedResponse == OkResult(<<ES("test1", StrVal, Num(1))>>, DefaultProfile, "high", 0)
\* verify_with_model lines 90-101: unparseable text comes back as an error record
BatchResponses == {OkResponse, MalformedResponse, ErrorResult}

NextModel == Models[Cardinality(DOMAIN model_results) + 1]
AfterModel == IF Cardinality(DOMAIN model_results) + 1 = Len(Models)
              THEN "agreement" ELSE "verify"

ScanDirectories ==
    /\ pc = "scan"
    /\ study_ids' = ScannedIds(extracted)
    /\ pc' = "loop"
    /\ UNCHANGED <<model_results, agreement_analysis, consensus_effects, consensus_agent,
                   extracted, study_id, results, persisted, attempted, summary, qaVars, calcVars, analysisVars>>

\* lines 322-343: the next id of the set, its files loaded
LoadStudy(s) ==
    /\ pc = "loop"
    /\ s \in study_ids
    /\ ~LoadRaises(extracted, s)
    /\ study_ids' = study_ids \ {s}
    /\ study_id' = s
    /\ attempted' = attempted \cup {s}
    /\ model_results' = << >>
    /\ agreement_analysis' = NoAgreement
    /\ consensus_effects' = << >>
    /\ consensus_agent' = NoAgent
    /\ pc' = "verify"
    /\ UNCHANGED <<extracted, results, persisted, summary, qaVars, calcVars, analysisVars>>

\* the exception leaves process_all_studies; run_consensus (lines 401-403)
\* returns success = False
LoadStudyRaises(s) ==
    /\ pc = "loop"
    /\ s \in study_ids
    /\ LoadRaises(extracted, s)
    /\ study_ids' = study_ids \ {s}
    /\ study_id' = s
    /\ attempted' = attempted \cup {s}
    /\ pc' = "crashed"
    /\ UNCHANGED <<synthVarsButPc, extracted, results, persisted, summary, qaVars, calcVars, analysisVars>>

\* lines 130-142: the model answered and the audit entry was written
VerifyReturns(r) ==
    /\ pc = "verify"
    /\ model_results' = model_results @@ (NextModel :> r)
    /\ pc' = AfterModel
    /\ UNCHANGED <<agreement_analysis, consensus_effects, consensus_agent, batchVars, qaVars, calcVars, analysisVars>>

\* lines 144-146: verify_with_model raised
VerifyRaises ==
    /\ pc = "verify"
    /\ model_results' = model_results @@ (NextModel :> ErrorResult)
    /\ pc' = AfterModel
    /\ UNCHANGED <<agreement_analysis, consensus_effects, consensus_agent, batchVars, qaVars, calcVars, analysisVars>>

\* lines 132-146: the model answered r, line 132 stored it, log_extraction
\* raised and line 146 replaced the entry
AuditLogRaises(r) ==
    /\ pc = "verify"
    /\ model_results' = model_results @@ (NextModel :> ErrorResult)
    /\ pc' = AfterModel
    /\ UNCHANGED <<agreement_analysis, consensus_effects, consensus_agent, batchVars, qaVars, calcVars, analysisVars>>

\* an exception of build_consensus is caught at line 354: nothing is written
SynthesisRaises ==
    /\ pc = "effects"
    /\ EffectSynthesisRaises(model_results)
    /\ pc' = "loop"
    /\ UNCHANGED <<synthVarsButPc, batchVars, qaVars, calcVars, analysisVars>>

\* lines 348-352
PersistConsensusUnlessEmpty ==
    /\ pc = "built"
    /\ persisted' = IF agreement_analysis.n_models_completed = 0
                     THEN persisted ELSE persisted \cup {study_id}
    /\ results' = [n |-> results.n + 1,
                   n_three |-> results.n_three
                       + (IF agreement_analysis.n_models_completed = 3 THEN 1 ELSE 0)]
    /\ pc' = "loop"
    /\ UNCHANGED <<synthVarsButPc, extracted, study_ids, study_id, attempted, summary, qaVars, calcVars, analysisVars>>

PersistConsensus ==
    /\ pc = "built"
    /\ persisted' = persisted \cup {study_id}
    /\ results' = [n |-> results.n + 1,
                   n_three |-> results.n_three
                       + (IF agreement_analysis.n_models_completed = 3 THEN 1 ELSE 0)]
    /\ pc' = "loop"
    /\ UNCHANGED <<synthVarsButPc, extracted, study_ids, study_id, attempted, summary, qaVars, calcVars, analysisVars>>

\* lines 357-369
WriteSummary ==
    /\ pc = "loop"
    /\ study_ids = {}
    /\ summary' = [written |-> TRUE, n_studies_processed |-> results.n,
                   n_three_model_complete |-> results.n_three]
    /\ pc' = "done"
    /\ UNCHANGED <<synthVarsButPc, extracted, study_ids, study_id, results, persisted,
                   attempted, qaVars, calcVars, analysisVars>>

\* The directories as phases 1-3 can leave them: the per-study files, at most
\* one of them cut short, with or without the aggregate files.
InitBatch ==
    /\ \E corrupt \in {{}} \cup {{s} : s \in Studies} :
       \E aggregates \in {{}, Phase3Aggregates} :
          extracted = aggregates \cup UNION {StudyFiles(s, IF s \in corrupt THEN "corrupt"
                                                         ELSE "object") : s \in Studies}
    /\ study_ids = {} /\ study_id = ""
    /\ results = NoResults /\ persisted = {} /\ attempted = {} /\ summary = NoSummary
    /\ SynthIdle
    /\ pc = "scan"
    /\ QAIdle
    /\ CalcIdle
    /\ AnalysisIdle

NextBatch ==
    \/ ScanDirectories
    \/ \E s \in study_ids : LoadStudy(s)
    \/ \E s \in study_ids : LoadStudyRaises(s)
    \/ \E r \in BatchResponses : VerifyReturns(r)
    \/ VerifyRaises
    \/ \E r \in BatchResponses : AuditLogRaises(r)
    \/ AnalyzeAgreement
    \/ SynthesizeEffectSizes
    \/ SynthesisRaises
    \/ SynthesizeAgentCharacteristics
    \/ PersistConsensus
    \/ WriteSummary

SpecBatch == InitBatch /\ [][NextBatch]_vars

-----------------------------------------------------------------------------
(* Properties of the consensus synthesis (SpecSynth) *)

RECURSIVE SumOver(_, _)
SumOver(S, f) ==
    IF S = {} THEN 0
    ELSE LET x == CHOOSE y \in S : TRUE IN f[x] + SumOver(S \ {x}, f)

Abs(x) == IF x < 0 THEN -x ELSE x

EffectsDone == pc \in {"agent", "built"}
Built       == pc = "built"

OkModels == {m \in Range(Models) : ~model_results[m].error}

\* <<m, i>>: entry i of non-errored model m reports `label`
ReportingEntries(label) ==
    {<<m, i>> \in OkModels \X (1..4) :
        /\ i <= Len(model_results[m].verified_effect_sizes)
        /\ LabelOf(model_results[m].verified_effect_sizes[i]) = label}

EntryAt(p) == model_results[p[1]].verified_effect_sizes[p[2]]

\* ... with a non-null hedges_g
ContributingEntries(label) ==
    {p \in ReportingEntries(label) : EntryAt(p).hedges_g # Null}

ContributingModels(label) == {p[1] : p \in ContributingEntries(label)}

ReportedLabels ==
    {LabelOf(model_results[m].verified_effect_sizes[i]) :
        <<m, i>> \in {q \in OkModels \X (1..4) :
                        q[2] <= Len(model_results[q[1]].verified_effect_sizes)}}

ConsensusLabels == {consensus_effects[i].outcome_label : i \in 1..Len(consensus_effects)}

\* C1: n_models_agree is the number of models that contributed a non-null
\* hedges_g for the label, it is 1, 2 or 3, and the quality tier and the flag
\* follow that count.
C1_TierFollowsContributingModels ==
    EffectsDone =>
        \A i \in 1..Len(consensus_effects) :
            LET rec == consensus_effects[i]
                k   == Cardinality(ContributingModels(rec.outcome_label))
            IN  /\ rec.n_models_agree = k
                /\ k \in 1..3
                /\ k = 3 => rec.consensus_quality = "3/3_agree" /\ rec.flag = "None"
                /\ k = 2 => rec.consensus_quality = "2/3_agree"
                             /\ rec.flag = "majority_consensus"
                /\ k = 1 => rec.consensus_quality = "1/3_only"
                             /\ rec.flag = "human_review_needed"

GSum(label)  == SumOver(ContributingEntries(label),
                        [p \in ContributingEntries(label) |-> EntryAt(p).hedges_g.val])
SeEntries(label) == {p \in ContributingEntries(label) : EntryAt(p).se_g # Null}
SeSum(label) == SumOver(SeEntries(label),
                        [p \in SeEntries(label) |-> EntryAt(p).se_g.val])

\* C2: hedges_g_consensus is the mean (to the four decimals the record keeps)
\* of the non-null hedges_g reported for the label by non-errored models, and
\* se_g_consensus is the mean of the non-null se_g of those same entries,
\* absent only when there is no such se_g.
C2_MeansOfContributingEntries ==
    EffectsDone =>
        \A i \in 1..Len(consensus_effects) :
            LET rec == consensus_effects[i]
                l   == rec.outcome_label
                n   == Cardinality(ContributingEntries(l))
                ns  == Cardinality(SeEntries(l))
            IN  /\ n >= 1
                /\ 2 * Abs(rec.hedges_g_consensus * n - GSum(l)) <= n
                /\ IF ns = 0 THEN rec.se_g_consensus = Null
                   ELSE /\ IsNum(rec.se_g_consensus)
                        /\ 2 * Abs(rec.se_g_consensus.val * ns - SeSum(l)) <= ns

\* C3: a label for which no non-errored model reported a non-null hedges_g
\* has no record in consensus_effect_sizes.
C3_NoRecordWithoutValidG ==
    EffectsDone =>
        /\ \A l \in ReportedLabels :
              ContributingEntries(l) = {} => l \notin ConsensusLabels
        /\ \A l \in ConsensusLabels : ContributingEntries(l) # {}

\* two models report test1 with a null hedges_g only, and the label is dropped
\* while another label is kept
C3_Witness ==
    /\ EffectsDone
    /\ \E l \in ReportedLabels :
         /\ Cardinality({p[1] : p \in ReportingEntries(l)}) >= 2
         /\ ContributingEntries(l) = {}
         /\ l \notin ConsensusLabels
    /\ consensus_effects # << >>

\* C4: an errored model is excluded from every tally: the agreement analysis
\* counts the non-errored models only, every effect-size record and every
\* field vote is made of the non-errored models' values only, and nothing
\* changes when the data an errored result carries is removed.
Blanked == [m \in Range(Models) |->
              IF model_results[m].error THEN ErrorResult ELSE model_results[m]]

FieldReporters(f) ==
    {m \in OkModels : model_results[m].verified_agent_characteristics[f] # ANull}

C4_ErroredModelsExcluded ==
    Built =>
        /\ agreement_analysis.n_models_completed = Cardinality(OkModels)
        /\ Range(agreement_analysis.models_completed) = OkModels
        /\ Len(agreement_analysis.confidence_values)
              = Cardinality({m \in OkModels : model_results[m].confidence # ""})
        /\ agreement_analysis.total_concerns_raised
              = SumOver(OkModels, [m \in OkModels |-> model_results[m].concerns])
        /\ \A i \in 1..Len(consensus_effects) :
              LET rec == consensus_effects[i]
              IN  /\ rec.n_models_agree = Cardinality(ReportingEntries(rec.outcome_label))
                  /\ Len(rec.g_values_per_model)
                        = Cardinality(ContributingEntries(rec.outcome_label))
        /\ \A f \in Range(Fields) :
              IF FieldReporters(f) = {}
              THEN consensus_agent[f] = [value |-> ANull, agreement |-> << >>]
              ELSE /\ consensus_agent[f].agreement[2] = Cardinality(FieldReporters(f))
                   /\ \E m \in FieldReporters(f) :
                         Normalise(consensus_agent[f].value)
                           = Normalise(model_results[m].verified_agent_characteristics[f])
        /\ agreement_analysis = analyze_agreement(Blanked)
        /\ consensus_effects \in synthesize_effect_sizes(Blanked)
        /\ consensus_agent = synthesize_agent_characteristics(Blanked)
        /\ Cardinality(OkModels) = 2 => agreement_analysis.n_models_completed = 2

\* exactly one model errored, its result carrying effect sizes, codes, a
\* confidence and a concern, and the other two reported data
C4_Witness ==
    /\ Built
    /\ Cardinality(OkModels) = 2
    /\ agreement_analysis.n_models_completed = 2
    /\ \E m \in Range(Models) : model_results[m] = ErrorWithData
    /\ consensus_effects # << >>
    /\ \A f \in Range(Fields) : consensus_agent[f].agreement = <<2, 2>>

\* the normalised values of a field reported by non-errored models
KeyOf(m, f) == Normalise(model_results[m].verified_agent_characteristics[f])
Freq(f, key) == Cardinality({m \in FieldReporters(f) : KeyOf(m, f) = key})
IsModal(f, key) ==
    /\ Freq(f, key) >= 1
    /\ \A m \in FieldReporters(f) : Freq(f, KeyOf(m, f)) <= Freq(f, key)

\* C8: each field's consensus value has maximal frequency among the non-null
\* values of non-errored models, {field}_agreement is k/n with k that
\* frequency and n the number of reporting models, 1 <= k <= n <= 3, and a
\* field no model reported is null.
C8_MajorityVote ==
    Built =>
        \A f \in Range(Fields) :
            IF FieldReporters(f) = {}
            THEN consensus_agent[f].value = ANull /\ consensus_agent[f].agreement = << >>
            ELSE LET key == Normalise(consensus_agent[f].value)
                     k   == Freq(f, key)
                     n   == Cardinality(FieldReporters(f))
                 IN  /\ IsModal(f, key)
                     /\ consensus_agent[f].agreement = <<k, n>>
                     /\ 1 <= k /\ k <= n /\ n <= 3

\* a 2-to-1 majority whose value is not the one the first model reported,
\* beside a field nobody reported
C8_Witness ==
    /\ Built
    /\ \E f \in Range(Fields) :
         /\ consensus_agent[f].agreement = <<2, 3>>
         /\ KeyOf(Models[1], f) # Normalise(consensus_agent[f].value)
    /\ \E f \in Range(Fields) :
         /\ FieldReporters(f) = {}
         /\ OkModels # {}

\* C9: among equally frequent values the consensus is the one first met when
\* the results are iterated in the order claude, gpt4o, groq.
FirstModalModel(f) ==
    CHOOSE k \in 1..Len(Models) :
        /\ Models[k] \in FieldReporters(f)
        /\ IsModal(f, KeyOf(Models[k], f))
        /\ \A j \in 1..(k-1) :
              Models[j] \in FieldReporters(f) => ~IsModal(f, KeyOf(Models[j], f))

C9_TieFirstEncountered ==
    Built =>
        \A f \in Range(Fields) :
            FieldReporters(f) # {} =>
                Normalise(consensus_agent[f].value) = KeyOf(Models[FirstModalModel(f)], f)

\* a tie: two different values of one field are both modal
C9_Witness ==
    /\ Built
    /\ \E f \in Range(Fields) :
         \E m1, m2 \in FieldReporters(f) :
            /\ KeyOf(m1, f) # KeyOf(m2, f)
            /\ IsModal(f, KeyOf(m1, f))
            /\ IsModal(f, KeyOf(m2, f))
            /\ Cardinality(FieldReporters(f)) = 3

-----------------------------------------------------------------------------
(* Properties of the batch (SpecBatch) *)

AllModelsCalled == DOMAIN model_results = Range(Models)
AllErrored      == \A m \in DOMAIN model_results : model_results[m].error
Terminated      == pc \in {"done", "crashed"}

ZeroModelRecord ==
    /\ agreement_analysis.n_models_completed = 0
    /\ agreement_analysis.models_completed = << >>
    /\ agreement_analysis.modal_confidence = ""
    /\ consensus_effects = << >>
    /\ \A f \in Range(Fields) : consensus_agent[f].value = ANull

\* C5: when all three model calls error the consensus record is
\* built with empty model_results and zero-model statistics.
C5_EmptyModelResults ==
    (pc = "built" /\ AllErrored) => (DOMAIN model_results = {} /\ ZeroModelRecord)

\* C5, with the error entries kept: when all three model calls error the consensus record is still
\* built and persisted; its model_results holds one error entry per model
\* (it is not empty), n_models_completed is 0, models_completed is empty,
\* there is no modal confidence, no consensus effect size, and every
\* agent-characteristic field is null.
C5_AllModelsErrored ==
    /\ (pc = "built" /\ AllErrored) =>
          (/\ AllModelsCalled
           /\ \A m \in Range(Models) : model_results[m] = ErrorResult
           /\ ZeroModelRecord)
    /\ (pc \in {"loop", "done"} /\ AllModelsCalled /\ AllErrored) =>
          study_id \in persisted

\* every model of the first study errored, its record is on disk, and the
\* loop goes on
C5_Witness ==
    /\ pc = "loop"
    /\ AllModelsCalled /\ AllErrored
    /\ ZeroModelRecord
    /\ study_id \in persisted
    /\ study_ids # {}

\* C6: once process_all_studies has returned, every id it attempted has a
\* persisted consensus record.
C6_EveryAttemptedStudyPersisted ==
    pc = "done" => attempted \subseteq persisted

\* C7: a failure while handling one study never stops the batch: when the
\* run is over every id has been attempted and the summary has been written.
C7_BatchNeverStops ==
    Terminated => (study_ids = {} /\ summary.written)


-----------------------------------------------------------------------------
(* QAFinalChecker (phase6_qa_final.py): the six quality gates *)

\* A text cell of the dataset: None, or a string
TNull   == [kind |-> "null", text |-> ""]
\* a key the study_info of a consensus record does not have
TAbsent == [kind |-> "absent", text |-> ""]
Text(s) == [kind |-> "str",  text |-> s]

\* lines 19-22
VALID_DESIGNS ==
    {"randomized_controlled_trial", "rct", "quasi_experimental", "pre_post",
     "pretest_posttest"}

\* lines 24-27
VALID_OUTCOME_TYPES ==
    {"learning_outcome", "achievement", "performance", "test_score", "knowledge",
     "skill", "competency", "grade"}

\* a comparison that keeps the case
LowerIdentity(t) == t

\* str.lower() on the texts of the datasets below
Lower(t) ==
    CASE t = "RCT" -> "rct"
      [] t = "Pre_Post" -> "pre_post"
      [] t = "Test_Score" -> "test_score"
      [] OTHER -> t

\* line 158, on str(design).lower(): 'pre' in design or 'post' in design
IsPrePost(design) ==
    Lower(design) \in {"pre_post", "pretest_posttest", "pre_experimental", "posttest_only"}

\* quality_targets defaults: max_effect_size 5.0 (hedges_g is held in tenths)
\* and min_sample_size 10
max_g == 50
min_n == 10

\* lines 39-46
gates ==
    <<"Gate 1: Effect Size Range", "Gate 2: Sample Size Adequacy",
      "Gate 3: Design Validity", "Gate 4: Outcome Type Check",
      "Gate 5: Completeness Check", "Gate 6: Duplicate Check">>

\* df['study_id'].unique() / drop_duplicates('study_id'): the first row of
\* each study, in order of appearance
FirstRows(d) ==
    SelectSeq([i \in 1..Len(d) |-> [row |-> d[i], first |->
                  \A j \in 1..(i - 1) : d[j].study_id # d[i].study_id]],
              LAMBDA x : x.first)

\* lines 116-119
gate1_effect_size_range(d) ==
    \A i \in 1..Len(d) : ~(d[i].hedges_g # Null /\ Abs(d[i].hedges_g.val) > max_g)

\* lines 150-169; str(None).lower() is 'none'
SampleSizeIssue(row) ==
    LET design == IF row.design_type.kind = "null" THEN "none" ELSE row.design_type.text
    IN  IF IsPrePost(design)
        THEN row.n_total # Null /\ row.n_total.val < min_n * 2
        ELSE \/ row.n_treatment # Null /\ row.n_treatment.val < min_n
             \/ row.n_control # Null /\ row.n_control.val < min_n

gate2_sample_size(d) ==
    \A i \in 1..Len(FirstRows(d)) : ~SampleSizeIssue(FirstRows(d)[i].row)

\* lines 194-205 and 231-242: a cell is invalid when it is a non-empty string
\* outside the vocabulary, missing when it is None or ''
VocabularyGate(d, column, vocabulary) ==
    \A i \in 1..Len(FirstRows(d)) :
        LET cell == FirstRows(d)[i].row[column]
        IN  /\ cell.kind = "str"
            /\ cell.text # ""
            /\ Lower(cell.text) \in vocabulary

gate3_design_validity(d) == VocabularyGate(d, "design_type", VALID_DESIGNS)

gate4_outcome_type(d) == VocabularyGate(d, "outcome_type", VALID_OUTCOME_TYPES)

\* lines 268-269
required_fields ==
    <<"hedges_g", "se_g", "design_type", "outcome_type", "oversight_level",
      "architecture", "agency_level">>

\* isna() of a cell: None / NaN only; the empty string is a value
IsNa(cell) == cell.kind = "null"

\* lines 271-281
incomplete(d) ==
    {f \in Range(required_fields) : \E i \in 1..Len(d) : IsNa(d[i][f])}

gate5_completeness(d) == incomplete(d) = {}

\* lines 306-307
gate6_no_duplicates(d) ==
    \A i, j \in 1..Len(d) :
        (d[i].study_id = d[j].study_id /\ d[i].outcome_label = d[j].outcome_label) => i = j

\* the gate_func of entry k of self.gates
GateFunc(k, d) ==
    CASE k = 1 -> gate1_effect_size_range(d)
      [] k = 2 -> gate2_sample_size(d)
      [] k = 3 -> gate3_design_validity(d)
      [] k = 4 -> gate4_outcome_type(d)
      [] k = 5 -> gate5_completeness(d)
      [] k = 6 -> gate6_no_duplicates(d)

-----------------------------------------------------------------------------
(* The consensus records phase 6 reads, and the dataset built from them *)

MaxFiles == 2    \* consensus files in the directory

\* original_data.study_info of a consensus record
StudyInfo(design, nt, nc, ntot, outcome) ==
    [design_type |-> design, n_treatment |-> nt, n_control |-> nc,
     sample_size_total |-> ntot, outcome_type |-> outcome]

BaseInfo == StudyInfo(Text("rct"), Num(30), Num(30), Num(60), Text("achievement"))

StudyInfos ==
    {BaseInfo,
     StudyInfo(Text("RCT"), Num(12), Num(12), Num(24), Text("Test_Score")),
     StudyInfo(Text("rct"), Num(5), Num(30), Num(35), Text("achievement")),
     StudyInfo(Text("rct"), Null, Null, Null, Text("achievement")),
     StudyInfo(Text("pre_post"), Null, Null, Num(15), Text("achievement")),
     StudyInfo(Text("Pre_Post"), Null, Null, Num(60), Text("knowledge")),
     StudyInfo(Text("pre_experimental"), Num(30), Num(30), Num(15), Text("achievement")),
     StudyInfo(Text("case_study"), Num(30), Num(30), Num(60), Text("achievement")),
     StudyInfo(Text(""), Num(30), Num(30), Num(60), Text("achievement")),
     StudyInfo(TNull, Num(30), Num(30), Num(60), Text("achievement")),
     StudyInfo(Text("rct"), Num(30), Num(30), Num(60), Text("satisfaction")),
     StudyInfo(Text("rct"), Num(30), Num(30), Num(60), Text("")),
     StudyInfo(Text("rct"), Num(30), Num(30), Num(60), TNull),
     StudyInfo(TAbsent, Num(30), Num(30), Num(60), Text("achievement")),
     StudyInfo(Text("rct"), Num(30), Num(30), Num(60), TAbsent)}

\* consensus_agent_characteristics: the three fields gate 5 requires
AgentCodes(o, a, g) == [oversight_level |-> o, architecture |-> a, agency_level |-> g]
BaseAgent == AgentCodes(ACat(1), ACat(1), ACat(1))
AgentCodeSets == {BaseAgent, AgentCodes(ANull, ACat(1), ACat(1))}

\* consensus_effect_sizes: hedges_g_consensus is a number in every record
\* phase 4 writes (a label without one is dropped), se_g_consensus may be null
Effect(l, g, s) == [outcome_label |-> l, hedges_g_consensus |-> g, se_g_consensus |-> s]
BaseEffects == <<Effect("test1", Num(3), Num(1))>>
EffectLists ==
    {BaseEffects,
     <<Effect("test1", Num(60), Num(1))>>,
     <<Effect("test1", Num(0 - 51), Num(1))>>,
     <<Effect("test1", Num(3), Null)>>,
     <<Effect("test1", Num(3), Num(1)), Effect("test2", Num(4), Num(1))>>,
     <<Effect("test1", Num(3), Num(1)), Effect("test1", Num(4), Num(1))>>,
     <<Effect("test2", Num(3), Num(1)), Effect("test1", Num(4), Num(1))>>,
     << >>}

ConsensusRecord(id, info, agent, effects) ==
    [study_id |-> id, study_info |-> info, agent |-> agent, effects |-> effects]

\* the records of one study: the base record with one part replaced, and a
\* record with a defect in every part
RecordsOf(id) ==
    {ConsensusRecord(id, i, BaseAgent, BaseEffects) : i \in StudyInfos}
    \cup {ConsensusRecord(id, BaseInfo, a, BaseEffects) : a \in AgentCodeSets}
    \cup {ConsensusRecord(id, BaseInfo, BaseAgent, e) : e \in EffectLists}
    \cup {ConsensusRecord(id, StudyInfo(Text("case_study"), Num(5), Num(5), Num(10),
                                        Text("satisfaction")),
                          AgentCodes(ANull, ACat(1), ACat(1)),
                          <<Effect("test1", Num(60), Null), Effect("test1", Num(3), Num(1))>>)}

\* a directory of 1..MaxFiles consensus files, one per study id
ConsensusDirs ==
    UNION {{f \in [1..n -> UNION {RecordsOf(StudyNames[i]) : i \in 1..n}] :
               \A i \in 1..n : f[i].study_id = StudyNames[i]} : n \in 1..MaxFiles}

\* study_info.get(key, ''), lines 82 and 86
GetText(cell) == IF cell = TAbsent THEN Text("") ELSE cell

\* lines 72-98: the rows of one consensus record
RowsOf(rec) ==
    [k \in 1..Len(rec.effects) |->
        [study_id |-> rec.study_id,
         outcome_label |-> rec.effects[k].outcome_label,
         hedges_g |-> rec.effects[k].hedges_g_consensus,
         se_g |-> rec.effects[k].se_g_consensus,
         design_type |-> GetText(rec.study_info.design_type),
         n_treatment |-> rec.study_info.n_treatment,
         n_control |-> rec.study_info.n_control,
         n_total |-> rec.study_info.sample_size_total,
         outcome_type |-> GetText(rec.study_info.outcome_type),
         oversight_level |-> rec.agent.oversight_level,
         architecture |-> rec.agent.architecture,
         agency_level |-> rec.agent.agency_level]]

\* lines 61-100
load_consensus_data(dir) == Flatten([i \in 1..Len(dir) |-> RowsOf(dir[i])])

-----------------------------------------------------------------------------
(* QAFinalChecker.run_all_gates (lines 325-367) *)

\* lines 340-348, a loop that stops at the first failing gate
RunGateStopAtFailure ==
    /\ pc = "gates"
    /\ gate_idx < Len(gates)
    /\ LET passed == GateFunc(gate_idx + 1, df)
       IN  /\ gate_results' = Append(gate_results,
                                     [gate |-> gates[gate_idx + 1], passed |-> passed])
           /\ all_passed' = IF passed THEN all_passed ELSE FALSE
           /\ gate_idx' = IF passed THEN gate_idx + 1 ELSE Len(gates)
    /\ UNCHANGED <<pc, synthVarsButPc, batchVars, consensus_dir, df, df_loaded, qa_report,
                   exported, qa_result, calcVars, analysisVars>>

\* lines 340-348: one iteration of the loop over self.gates
RunGate ==
    /\ pc = "gates"
    /\ gate_idx < Len(gates)
    /\ LET passed == GateFunc(gate_idx + 1, df)
       IN  /\ gate_results' = Append(gate_results,
                                     [gate |-> gates[gate_idx + 1], passed |-> passed])
           /\ all_passed' = IF passed THEN all_passed ELSE FALSE
    /\ gate_idx' = gate_idx + 1
    /\ UNCHANGED <<pc, synthVarsButPc, batchVars, consensus_dir, df, df_loaded, qa_report,
                   exported, qa_result, calcVars, analysisVars>>

\* lines 350-367
BuildReport ==
    /\ pc = "gates"
    /\ gate_idx = Len(gates)
    /\ qa_report' = [written |-> TRUE, all_gates_passed |-> all_passed,
                     gate_results |-> gate_results]
    /\ pc' = "reported"
    /\ UNCHANGED <<synthVarsButPc, batchVars, consensus_dir, df, df_loaded, gate_results,
                   all_passed, gate_idx, exported, qa_result, calcVars, analysisVars>>

-----------------------------------------------------------------------------
(* run_qa_final (lines 387-451) *)

\* the order of sort_values(['study_id', 'outcome_label'])
StudyRank(id) == CHOOSE i \in 1..Len(StudyNames) : StudyNames[i] = id
LabelRank(l)  == IF l = "test1" THEN 1 ELSE 2
RowLess(a, b) ==
    \/ StudyRank(a.study_id) < StudyRank(b.study_id)
    \/ /\ a.study_id = b.study_id
       /\ LabelRank(a.outcome_label) < LabelRank(b.outcome_label)

RECURSIVE InsertRow(_, _)
InsertRow(x, rows) ==
    IF rows = << >> THEN <<x>>
    ELSE IF RowLess(Head(rows), x) THEN <<Head(rows)>> \o InsertRow(x, Tail(rows))
    ELSE <<x>> \o rows

\* export_final_dataset lines 377-379: a sorted copy of the dataset
RECURSIVE SortRows(_)
SortRows(rows) ==
    IF rows = << >> THEN << >> ELSE InsertRow(Head(rows), SortRows(Tail(rows)))

\* lines 404-410: the dataset is loaded and handed to run_all_gates
LoadConsensusData ==
    /\ pc = "qa_load"
    /\ load_consensus_data(consensus_dir) # << >>
    /\ df' = load_consensus_data(consensus_dir)
    /\ df_loaded' = load_consensus_data(consensus_dir)
    /\ pc' = "gates"
    /\ UNCHANGED <<synthVarsButPc, batchVars, consensus_dir, gate_results, all_passed,
                   gate_idx, qa_report, exported, qa_result, calcVars, analysisVars>>

\* no consensus record has an effect size: the DataFrame has no column, line
\* 101 raises KeyError and the except of line 449 returns the failure
LoadNoData ==
    /\ pc = "qa_load"
    /\ load_consensus_data(consensus_dir) = << >>
    /\ qa_result' = [returned |-> TRUE, success |-> FALSE, error |-> TRUE]
    /\ pc' = "qa_done"
    /\ UNCHANGED <<synthVarsButPc, batchVars, consensus_dir, df, df_loaded, gate_results,
                   all_passed, gate_idx, qa_report, exported, calcVars, analysisVars>>

\* the dataset is exported only when every gate passed
ExportOnlyIfPassed ==
    /\ pc = "reported"
    /\ exported' = IF qa_report.all_gates_passed THEN SortRows(df) ELSE << >>
    /\ qa_result' = [returned |-> TRUE, success |-> qa_report.all_gates_passed,
                     error |-> FALSE]
    /\ pc' = "qa_done"
    /\ UNCHANGED <<synthVarsButPc, batchVars, consensus_dir, df, df_loaded, gate_results,
                   all_passed, gate_idx, qa_report, calcVars, analysisVars>>

\* lines 412-447: the report is written, the dataset exported, the result
\* returned
ExportAndReturn ==
    /\ pc = "reported"
    /\ exported' = SortRows(df)
    /\ qa_result' = [returned |-> TRUE, success |-> qa_report.all_gates_passed,
                     error |-> FALSE]
    /\ pc' = "qa_done"
    /\ UNCHANGED <<synthVarsButPc, batchVars, consensus_dir, df, df_loaded, gate_results,
                   all_passed, gate_idx, qa_report, calcVars, analysisVars>>

InitQA ==
    /\ consensus_dir \in ConsensusDirs
    /\ df = << >>
    /\ df_loaded = << >>
    /\ gate_results = << >>
    /\ all_passed = TRUE
    /\ gate_idx = 0
    /\ qa_report = NoReport
    /\ exported = << >>
    /\ qa_result = NoResult
    /\ pc = "qa_load"
    /\ SynthIdle
    /\ BatchIdle
    /\ CalcIdle
    /\ AnalysisIdle

NextQA ==
    \/ LoadConsensusData
    \/ LoadNoData
    \/ RunGate
    \/ BuildReport
    \/ ExportAndReturn

SpecQA == InitQA /\ [][NextQA]_vars

-----------------------------------------------------------------------------
(* Properties of the quality gates (SpecQA) *)

GateNames(rs) == [i \in 1..Len(rs) |-> rs[i].gate]

\* C10: run_all_gates evaluates the six gates once each in the fixed order
\* Range, Sample size, Design validity, Outcome type, Completeness, No
\* duplicates, whether or not an earlier gate failed: while the loop runs the
\* recorded gates are the first gate_idx entries of the list, each with the
\* verdict of its own check of the dataset, and the report holds all six, with
\* all_gates_passed true exactly when every one of the six passed.
C10_AllGatesRunInOrder ==
    /\ pc = "gates" =>
          /\ GateNames(gate_results) = SubSeq(gates, 1, gate_idx)
          /\ \A i \in 1..Len(gate_results) : gate_results[i].passed = GateFunc(i, df)
    /\ qa_report.written =>
          /\ GateNames(qa_report.gate_results) = gates
          /\ Len(gates) = 6
          /\ \A i \in 1..6 : qa_report.gate_results[i].passed = GateFunc(i, df)
          /\ qa_report.all_gates_passed
                <=> (\A i \in 1..6 : qa_report.gate_results[i].passed)

\* a report in which the first gate failed and later gates were still run,
\* one of them passing and one failing
C10_Witness ==
    /\ qa_report.written
    /\ ~qa_report.gate_results[1].passed
    /\ qa_report.gate_results[2].passed
    /\ ~qa_report.gate_results[6].passed
    /\ ~qa_report.all_gates_passed


\* the design texts of the datasets that contain 'pre' or 'post'
PrePostTexts == {"pre_post", "Pre_Post", "pre_experimental"}

\* the sample-size requirement of a study, read off one of its rows
MeetsSampleSize(row) ==
    IF row.design_type.kind = "str" /\ row.design_type.text \in PrePostTexts
    THEN row.n_total # Null /\ row.n_total.val >= 2 * min_n
    ELSE /\ row.n_treatment # Null /\ row.n_treatment.val >= min_n
         /\ row.n_control # Null /\ row.n_control.val >= min_n

\* C11: gate 2 passes if and only if every study satisfies its sample-size
\* requirement: n_total >= 2*min_n for a study whose design_type contains
\* 'pre' or 'post', n_treatment >= min_n and n_control >= min_n for any other.
C11_Gate2IffSampleSizes ==
    Len(gate_results) >= 2 =>
        (gate_results[2].passed <=> \A i \in 1..Len(df) : MeetsSampleSize(df[i]))


\* two texts that differ at most in the case of their letters
SameIgnoringCase(a, b) ==
    \/ a = b
    \/ <<a, b>> \in {<<"RCT", "rct">>, <<"Pre_Post", "pre_post">>,
                    <<"Test_Score", "test_score">>}

InVocabulary(cell, vocabulary) ==
    /\ cell.kind = "str"
    /\ \E v \in vocabulary : SameIgnoringCase(cell.text, v)

MissingOrBlank(cell) == cell.kind = "null" \/ (cell.kind = "str" /\ cell.text = "")

\* C12: gate 3 passes if and only if every study's design_type, compared
\* case-insensitively, is in the design vocabulary, and gate 4 passes if and
\* only if every study's outcome_type, compared case-insensitively, is in the
\* outcome-type vocabulary; a missing or blank value makes the gate fail.
C12_VocabularyGates ==
    Len(gate_results) >= 4 =>
        /\ gate_results[3].passed
              <=> \A i \in 1..Len(df) : InVocabulary(df[i].design_type, VALID_DESIGNS)
        /\ gate_results[4].passed
              <=> \A i \in 1..Len(df) : InVocabulary(df[i].outcome_type, VALID_OUTCOME_TYPES)
        /\ (\E i \in 1..Len(df) : MissingOrBlank(df[i].design_type))
              => ~gate_results[3].passed
        /\ (\E i \in 1..Len(df) : MissingOrBlank(df[i].outcome_type))
              => ~gate_results[4].passed

\* gate 3 passed on a dataset with the design "RCT" in capitals, and gate 4
\* failed on it only because a study's outcome_type is missing or blank
C12_Witness ==
    /\ qa_report.written
    /\ gate_results[3].passed
    /\ \E i \in 1..Len(df) : df[i].design_type = Text("RCT")
    /\ ~gate_results[4].passed
    /\ \A i \in 1..Len(df) :
          \/ InVocabulary(df[i].outcome_type, VALID_OUTCOME_TYPES)
          \/ MissingOrBlank(df[i].outcome_type)


\* the required fields for which a consensus record supplies no value on the
\* row of its k-th effect size
Unsupplied(rec, k) ==
    {f \in Range(required_fields) :
        \/ f = "hedges_g" /\ rec.effects[k].hedges_g_consensus = Null
        \/ f = "se_g" /\ rec.effects[k].se_g_consensus = Null
        \/ f \in {"design_type", "outcome_type"} /\ rec.study_info[f].kind # "str"
        \/ f \in {"oversight_level", "architecture", "agency_level"} /\ rec.agent[f] = ANull}

UnsuppliedFields ==
    UNION {Unsupplied(consensus_dir[i], k) :
              <<i, k>> \in {p \in (1..Len(consensus_dir)) \X (1..2) :
                               p[2] <= Len(consensus_dir[p[1]].effects)}}

\* C13: gate 5 passes if and only if every required field is populated on
\* every row; a row for which the consensus record supplied no value for a
\* required field makes the gate fail, and the field is among the incomplete
\* fields the gate reports.
C13_Gate5IffPopulated ==
    Len(gate_results) >= 5 =>
        /\ gate_results[5].passed <=> UnsuppliedFields = {}
        /\ UnsuppliedFields \subseteq incomplete(df)


CountRow(rows, r) == Cardinality({i \in 1..Len(rows) : rows[i] = r})

SameRows(a, b) ==
    /\ Len(a) = Len(b)
    /\ \A i \in 1..Len(a) : CountRow(a, a[i]) = CountRow(b, a[i])

\* C14: the checker only reports.  No gate adds, removes or changes a row of
\* the dataset; the exported dataset holds exactly the loaded rows whether or
\* not a gate failed; a failing gate shows only as all_gates_passed = false in
\* the report and success = false in the returned result.
C14_CheckerOnlyReports ==
    /\ pc \in {"gates", "reported"} => df = df_loaded
    /\ (qa_result.returned /\ ~qa_result.error) =>
          /\ df = df_loaded
          /\ SameRows(exported, df_loaded)
          /\ qa_report.written
          /\ qa_report.all_gates_passed = (\A i \in 1..Len(gates) : gate_results[i].passed)
          /\ qa_result.success = qa_report.all_gates_passed

\* a run that returned with a failed gate and exported its rows, which the
\* export had to reorder
C14_Witness ==
    /\ qa_result.returned /\ ~qa_result.error
    /\ ~qa_report.all_gates_passed
    /\ ~qa_result.success
    /\ Len(exported) >= 2
    /\ exported # df_loaded


-----------------------------------------------------------------------------
(* EffectSizeCalculator (utils/effect_size_calculator.py)                  *)
(*                                                                         *)
(* A float is Num(v), standing for v / Scale, or NaN, or Inf(1), Inf(-1);  *)
(* Raised stands for an expression whose evaluation raised an exception.   *)
(* Python's own division raises ZeroDivisionError on a zero divisor, a     *)
(* division with a numpy operand yields inf or nan; np.sqrt of a negative  *)
(* number is nan; every comparison with nan is false.                      *)

Scale == 1000    \* fixed-point units per 1.0

NoKey   == [kind |-> "absent", val |-> 0]     \* key not in data
NaN     == [kind |-> "nan",    val |-> 0]
Inf(s)  == [kind |-> "inf",    val |-> s]
Raised  == [kind |-> "raise",  val |-> 0]

FromInt(n) == Num(n * Scale)

Sign(x) == IF x > 0 THEN 1 ELSE IF x < 0 THEN -1 ELSE 0

\* a / b rounded toward zero, b # 0
Quot(a, b) == IF Sign(a) * Sign(b) >= 0 THEN Abs(a) \div Abs(b) ELSE -(Abs(a) \div Abs(b))

RECURSIVE Bisect(_, _, _)
Bisect(n, lo, hi) ==
    IF hi - lo <= 1 THEN lo
    ELSE LET mid == (lo + hi) \div 2
         IN  IF mid * mid <= n THEN Bisect(n, mid, hi) ELSE Bisect(n, lo, mid)

\* the integer part of the square root of n >= 0
ISqrt(n) == Bisect(n, 0, 46340)

Kinds(a, b) == {a.kind, b.kind}

FMul(a, b) ==
    IF "raise" \in Kinds(a, b) THEN Raised
    ELSE IF "nan" \in Kinds(a, b) THEN NaN
    ELSE IF Kinds(a, b) = {"num"} THEN Num(Quot(a.val * b.val, Scale))
    ELSE IF a.val = 0 \/ b.val = 0 THEN NaN
    ELSE Inf(Sign(a.val) * Sign(b.val))

FAdd(a, b) ==
    IF "raise" \in Kinds(a, b) THEN Raised
    ELSE IF "nan" \in Kinds(a, b) THEN NaN
    ELSE IF Kinds(a, b) = {"num"} THEN Num(a.val + b.val)
    ELSE IF Kinds(a, b) = {"inf"} THEN (IF a.val = b.val THEN a ELSE NaN)
    ELSE IF a.kind = "inf" THEN a ELSE b

FNeg(a) ==
    IF a.kind = "num" THEN Num(0 - a.val)
    ELSE IF a.kind = "inf" THEN Inf(0 - a.val)
    ELSE a

FSub(a, b) == FAdd(a, FNeg(b))

\* a / b; numpy is TRUE when an operand is a numpy float
FDiv(a, b, numpy) ==
    IF "raise" \in Kinds(a, b) THEN Raised
    ELSE IF "nan" \in Kinds(a, b) THEN NaN
    ELSE IF b.kind = "num" /\ b.val = 0
         THEN IF ~numpy THEN Raised
              ELSE IF a.val = 0 THEN NaN ELSE Inf(Sign(a.val))
    ELSE IF Kinds(a, b) = {"num"} THEN Num(Quot(a.val * Scale, b.val))
    ELSE IF Kinds(a, b) = {"inf"} THEN NaN
    ELSE IF b.kind = "inf" THEN Num(0)
    ELSE Inf(Sign(a.val) * Sign(b.val))

\* np.sqrt
FSqrt(a) ==
    IF a.kind \in {"raise", "nan"} THEN a
    ELSE IF a.val < 0 THEN NaN
    ELSE IF a.kind = "inf" THEN a
    ELSE Num(ISqrt(a.val * Scale))

\* a < b
FLt(a, b) ==
    /\ "nan" \notin Kinds(a, b)
    /\ IF Kinds(a, b) = {"num"} \/ Kinds(a, b) = {"inf"} THEN a.val < b.val
       ELSE IF a.kind = "inf" THEN a.val < 0 ELSE b.val > 0

FAbs(a) == IF a.kind \in {"num", "inf"} THEN [a EXCEPT !.val = Abs(a.val)] ELSE a

\* Cohen's d returned as g, without the small-sample correction
cohens_d_to_hedges_g_uncorrected(d, n1, n2, numpy) ==
    LET n_total == n1 + n2
    IN  [g  |-> d,
         se |-> FSqrt(FAdd(FDiv(FromInt(n_total), FromInt(n1 * n2), FALSE),
                           FDiv(FMul(d, d), FromInt(2 * n_total), numpy)))]

\* lines 17-39; numpy is TRUE when d is a numpy float
cohens_d_to_hedges_g(d, n1, n2, numpy) ==
    LET dof == n1 + n2 - 2
        j  == FSub(FromInt(1), FDiv(FromInt(3), FromInt(4 * dof - 1), FALSE))
        g  == FMul(d, j)
        n_total == n1 + n2
    IN  [g  |-> g,
         se |-> FSqrt(FAdd(FDiv(FromInt(n_total), FromInt(n1 * n2), FALSE),
                           FDiv(FMul(g, g), FromInt(2 * n_total), numpy)))]

\* lines 41-67
means_to_hedges_g(m1, m2, sd1, sd2, n1, n2) ==
    LET df1 == n1 - 1
        df2 == n2 - 1
        pooled_sd == FSqrt(FDiv(FAdd(FMul(FromInt(df1), FMul(sd1, sd1)),
                                     FMul(FromInt(df2), FMul(sd2, sd2))),
                                FromInt(df1 + df2), FALSE))
        d == FDiv(FSub(m1, m2), pooled_sd, TRUE)
    IN  cohens_d_to_hedges_g(d, n1, n2, TRUE)

\* lines 69-100
prepost_to_hedges_g(m_pre, m_post, sd_pre, sd_post, n, r) ==
    LET sd_avg == FDiv(FAdd(sd_pre, sd_post), FromInt(2), FALSE)
        d  == FDiv(FSub(m_post, m_pre), sd_avg, FALSE)
        dof == n - 1
        j  == FSub(FromInt(1), FDiv(FromInt(3), FromInt(4 * dof - 1), FALSE))
        g  == FMul(d, j)
    IN  [g  |-> g,
         se |-> FSqrt(FAdd(FDiv(FMul(FromInt(2), FSub(FromInt(1), r)), FromInt(n), FALSE),
                           FDiv(FMul(g, g), FromInt(2 * n), FALSE)))]

\* lines 102-119
t_to_hedges_g(t, n1, n2) ==
    LET d == FMul(t, FSqrt(FDiv(FromInt(n1 + n2), FromInt(n1 * n2), FALSE)))
    IN  cohens_d_to_hedges_g(d, n1, n2, TRUE)

\* lines 121-137
f_to_hedges_g(f, n1, n2) == t_to_hedges_g(FSqrt(f), n1, n2)

\* lines 139-159
r_to_hedges_g(r, n) ==
    LET d  == FDiv(FMul(FromInt(2), r), FSqrt(FSub(FromInt(1), FMul(r, r))), TRUE)
        n1 == n \div 2
    IN  cohens_d_to_hedges_g(d, n1, n1, TRUE)


\* lines 161-177
hedges_g_variance(g, n1, n2) ==
    LET n_total == n1 + n2
    IN  FAdd(FDiv(FromInt(n_total), FromInt(n1 * n2), FALSE),
             FDiv(FMul(g, g), FromInt(2 * n_total), FALSE))

default_max_g == 5 * Scale    \* line 181, max_g = 5.0
default_min_n == 10           \* line 181, min_n

Z196 == (196 * Scale) \div 100    \* 1.96

NoValidation == [raised |-> TRUE, valid |-> FALSE, issues |-> << >>, warnings |-> << >>,
                 ci_95 |-> << >>]

\* lines 179-232; n1 and n2 arrive as the values lines 319-320 read from the
\* record, and a comparison or a sum with None or a string raises TypeError
validate_effect_size(g, se, n1, n2, maxg, minn) ==
    IF ~IsNum(n1) \/ ~IsNum(n2) THEN NoValidation
    ELSE
    LET issues ==
            (IF FLt(Num(maxg), FAbs(g)) THEN <<"Effect size |g| exceeds maximum">> ELSE << >>)
            \o (IF n1.val < minn THEN <<"Group 1 sample size below minimum">> ELSE << >>)
            \o (IF n2.val < minn THEN <<"Group 2 sample size below minimum">> ELSE << >>)
        expected_min_se == FSqrt(FDiv(FromInt(2), FromInt(n1.val + n2.val), FALSE))
        expected_max_se ==
            FSqrt(FDiv(FromInt(4), FromInt(IF n1.val <= n2.val THEN n1.val ELSE n2.val), FALSE))
        warnings ==
            (IF FLt(se, FMul(expected_min_se, Num(Scale \div 2)))
             THEN <<"Standard error unusually small">> ELSE << >>)
            \o (IF FLt(expected_max_se, se)
                THEN <<"Standard error unusually large">> ELSE << >>)
    IN  IF expected_min_se = Raised \/ expected_max_se = Raised THEN NoValidation
        ELSE [raised |-> FALSE, valid |-> issues = << >>, issues |-> issues,
              warnings |-> warnings,
              ci_95 |-> <<FSub(g, FMul(Num(Z196), se)), FAdd(g, FMul(Num(Z196), se))>>]

Keys == {"hedges_g", "se_g", "se", "cohens_d", "n1", "n2", "m1", "m2", "sd1", "sd2",
         "m_pre", "m_post", "sd_pre", "sd_post", "n", "r_prepost", "t", "f", "r"}

\* k in data
Has(d, ks) == \A k \in ks : d[k] # NoKey

\* float(v): TypeError for None, ValueError for a non-numeric string
ToFloat(v) == IF IsNum(v) THEN v ELSE Raised

\* int(data[k]) succeeds for every k of ks (KeyError for a missing key)
Ints(d, ks) == \A k \in ks : IsNum(d[k])

\* lines 255-315: the branch of the if/elif chain the record takes
Shape(d) ==
    IF d["hedges_g"] \notin {NoKey, Null} THEN "direct_hedges_g"
    ELSE IF d["cohens_d"] \notin {NoKey, Null} THEN "cohen_d_conversion"
    ELSE IF Has(d, {"m1", "m2", "sd1", "sd2", "n1", "n2"}) THEN "means_sds"
    ELSE IF Has(d, {"m_pre", "m_post", "sd_pre", "sd_post", "n"}) THEN "prepost"
    ELSE IF Has(d, {"t", "n1", "n2"}) THEN "t_statistic"
    ELSE IF Has(d, {"f", "n1", "n2"}) THEN "f_statistic"
    ELSE IF Has(d, {"r", "n"}) THEN "correlation"
    ELSE "None"

RaisedPair == [g |-> Raised, se |-> Raised]

\* lines 255-311: the body of the branch, g and se as it computes them
Convert(d, shape) ==
    LET n1 == d["n1"].val
        n2 == d["n2"].val
        n  == d["n"].val
    IN
    CASE shape = "direct_hedges_g" ->
           LET g  == ToFloat(d["hedges_g"])
               se == ToFloat(IF Has(d, {"se_g"}) THEN d["se_g"]
                             ELSE IF Has(d, {"se"}) THEN d["se"] ELSE Num(0))
           IN  IF se = Num(0) /\ Has(d, {"n1", "n2"})
               THEN IF Ints(d, {"n1", "n2"})
                    THEN [g |-> g, se |-> FSqrt(hedges_g_variance(g, n1, n2))]
                    ELSE RaisedPair
               ELSE [g |-> g, se |-> se]
      [] shape = "cohen_d_conversion" ->
           IF Ints(d, {"n1", "n2"})
           THEN cohens_d_to_hedges_g(ToFloat(d["cohens_d"]), n1, n2, FALSE)
           ELSE RaisedPair
      [] shape = "means_sds" ->
           IF Ints(d, {"n1", "n2"})
           THEN means_to_hedges_g(ToFloat(d["m1"]), ToFloat(d["m2"]), ToFloat(d["sd1"]),
                                  ToFloat(d["sd2"]), n1, n2)
           ELSE RaisedPair
      [] shape = "prepost" ->
           IF Ints(d, {"n"})
           THEN prepost_to_hedges_g(ToFloat(d["m_pre"]), ToFloat(d["m_post"]),
                                    ToFloat(d["sd_pre"]), ToFloat(d["sd_post"]), n,
                                    ToFloat(IF Has(d, {"r_prepost"}) THEN d["r_prepost"]
                                            ELSE Num(Scale \div 2)))
           ELSE RaisedPair
      [] shape = "t_statistic" ->
           IF Ints(d, {"n1", "n2"}) THEN t_to_hedges_g(ToFloat(d["t"]), n1, n2)
           ELSE RaisedPair
      [] shape = "f_statistic" ->
           IF Ints(d, {"n1", "n2"}) THEN f_to_hedges_g(ToFloat(d["f"]), n1, n2)
           ELSE RaisedPair
      [] shape = "correlation" ->
           IF Ints(d, {"n"}) THEN r_to_hedges_g(ToFloat(d["r"]), n)
           ELSE RaisedPair
      [] OTHER -> RaisedPair

\* lines 319-320: data.get(k, data.get('n', 0) // 2); the default is computed
\* whether or not k is there, and None // 2 raises TypeError
GroupSize(d, k) ==
    IF d["n"] # NoKey /\ ~IsNum(d["n"]) THEN Raised
    ELSE IF d[k] # NoKey THEN d[k]
    ELSE IF d["n"] = NoKey THEN Num(0)
    ELSE Num(d["n"].val \div 2)

\* lines 245-251
InitialResult ==
    [returned |-> TRUE, g |-> Null, se |-> Null, method |-> "None", valid |-> FALSE,
     issues |-> << >>, warnings |-> << >>, ci_95 |-> << >>]

\* lines 234-330
extract_effect_size(d) ==
    LET shape == Shape(d)
        c == Convert(d, shape)
        converted == [InitialResult EXCEPT !.g = c.g, !.se = c.se, !.method = shape]
        v == validate_effect_size(c.g, c.se, GroupSize(d, "n1"), GroupSize(d, "n2"),
                                  default_max_g, default_min_n)
    IN  IF shape = "None"
        THEN [InitialResult EXCEPT !.issues = <<"No recognized effect size format found">>]
        ELSE IF c.g = Raised \/ c.se = Raised
        THEN [InitialResult EXCEPT !.issues = <<"Extraction failed">>]
        ELSE IF v.raised
        THEN [converted EXCEPT !.issues = <<"Extraction failed">>]
        ELSE [converted EXCEPT !.valid = v.valid, !.issues = v.issues,
                               !.warnings = v.warnings, !.ci_95 = v.ci_95]


\* ---- the records extract_effect_size is applied to ----
EmptyData == [k \in Keys |-> NoKey]

\* the value v / 10 as a float
Tenths(v) == Num((v * Scale) \div 10)

\* sample sizes: both groups large, at the minimum, one group small, zero,
\* negative, None, a string
GroupPairs ==
    {<<Num(30), Num(30)>>, <<Num(10), Num(10)>>, <<Num(12), Num(9)>>, <<Num(4), Num(30)>>,
     <<Num(0), Num(30)>>, <<Num(0), Num(0)>>, <<Num(0 - 5), Num(30)>>, <<Num(1), Num(1)>>,
     <<Null, Num(30)>>, <<Num(30), StrVal>>, <<NoKey, Num(30)>>, <<NoKey, NoKey>>}

Groups(p) == ("n1" :> p[1]) @@ ("n2" :> p[2])

TotalSizes == {Num(40), Num(20), Num(19), Num(15), Num(1), Num(0), Num(0 - 5), Null, StrVal}

DirectData ==
    {("hedges_g" :> g) @@ se @@ n @@ EmptyData :
        g \in {Tenths(5), Tenths(0 - 5), Tenths(50), Num(5 * Scale + 1), Tenths(0), StrVal},
        se \in {<< >>, "se_g" :> Tenths(1), "se_g" :> Num(0), "se_g" :> Tenths(0 - 1),
                "se_g" :> Tenths(20), "se_g" :> Null, "se" :> Tenths(1), "se" :> StrVal},
        n \in {Groups(p) : p \in GroupPairs} \cup {"n" :> t : t \in {Num(40), Num(15), Null}}}

CohensDData ==
    {("cohens_d" :> d) @@ Groups(p) @@ EmptyData :
        d \in {Tenths(5), Tenths(0 - 20), Tenths(60), StrVal}, p \in GroupPairs}

MeansData ==
    {("m1" :> m[1]) @@ ("m2" :> m[2]) @@ ("sd1" :> sd[1]) @@ ("sd2" :> sd[2])
        @@ Groups(p) @@ EmptyData :
        m \in {<<Tenths(50), Tenths(40)>>, <<Tenths(40), Tenths(40)>>, <<Null, Tenths(40)>>},
        sd \in {<<Tenths(20), Tenths(20)>>, <<Tenths(10), Tenths(30)>>, <<Tenths(0), Tenths(0)>>},
        p \in GroupPairs \ {<<NoKey, Num(30)>>, <<NoKey, NoKey>>}}

PrePostData ==
    {("m_pre" :> Tenths(40)) @@ ("m_post" :> post) @@ ("sd_pre" :> sd) @@ ("sd_post" :> sd)
        @@ ("n" :> n) @@ r @@ EmptyData :
        post \in {Tenths(50), Tenths(40)},
        sd \in {Tenths(20), Tenths(0), StrVal},
        n \in TotalSizes,
        r \in {<< >>, "r_prepost" :> Tenths(5), "r_prepost" :> Tenths(15), "r_prepost" :> Null}}

TData ==
    {("t" :> t) @@ Groups(p) @@ EmptyData :
        t \in {Tenths(20), Tenths(0 - 20), Tenths(80), Null},
        p \in GroupPairs \ {<<NoKey, Num(30)>>, <<NoKey, NoKey>>}}

FData ==
    {("f" :> f) @@ Groups(p) @@ EmptyData :
        f \in {Tenths(40), Tenths(0 - 40), Tenths(0), StrVal},
        p \in GroupPairs \ {<<NoKey, Num(30)>>, <<NoKey, NoKey>>}}

RData ==
    {("r" :> r) @@ ("n" :> n) @@ EmptyData :
        r \in {Tenths(3), Tenths(0 - 3), Tenths(10), Tenths(0 - 10), Tenths(15), Tenths(0), Null},
        n \in TotalSizes}

Sizes3030 == Groups(<<Num(30), Num(30)>>)

\* records with the fields of several shapes, of no shape, or of a shape in part
MixedData ==
    {EmptyData,
     Sizes3030 @@ EmptyData,
     ("t" :> Tenths(20)) @@ ("n" :> Num(40)) @@ EmptyData,
     ("r" :> Tenths(3)) @@ EmptyData,
     ("m1" :> Tenths(50)) @@ ("m2" :> Tenths(40)) @@ ("n" :> Num(40)) @@ EmptyData,
     ("hedges_g" :> Tenths(5)) @@ ("se_g" :> Tenths(1)) @@ ("cohens_d" :> Tenths(20))
        @@ Sizes3030 @@ EmptyData,
     ("hedges_g" :> Null) @@ ("cohens_d" :> Tenths(20)) @@ Sizes3030 @@ EmptyData,
     ("hedges_g" :> Null) @@ ("t" :> Tenths(20)) @@ Sizes3030 @@ EmptyData,
     ("cohens_d" :> Tenths(5)) @@ ("r" :> Tenths(3)) @@ ("n" :> Num(40)) @@ EmptyData,
     ("cohens_d" :> Null) @@ ("r" :> Tenths(3)) @@ ("n" :> Num(40)) @@ EmptyData,
     ("cohens_d" :> Tenths(5)) @@ ("t" :> Tenths(20)) @@ Sizes3030 @@ EmptyData,
     ("m1" :> Tenths(50)) @@ ("m2" :> Tenths(40)) @@ ("sd1" :> Tenths(20))
        @@ ("sd2" :> Tenths(20)) @@ ("t" :> Tenths(60)) @@ Sizes3030 @@ EmptyData,
     ("m1" :> Tenths(50)) @@ ("m2" :> Tenths(40)) @@ ("sd1" :> Tenths(20))
        @@ ("t" :> Tenths(20)) @@ Sizes3030 @@ EmptyData,
     ("m_pre" :> Tenths(40)) @@ ("m_post" :> Tenths(50)) @@ ("sd_pre" :> Tenths(20))
        @@ ("sd_post" :> Tenths(20)) @@ ("n" :> Num(40)) @@ ("t" :> Tenths(60))
        @@ Sizes3030 @@ EmptyData,
     ("m_pre" :> Tenths(40)) @@ ("m_post" :> Tenths(50)) @@ ("sd_pre" :> Tenths(20))
        @@ ("sd_post" :> Tenths(20)) @@ ("n" :> Num(40)) @@ ("r" :> Tenths(3)) @@ EmptyData,
     ("t" :> Tenths(20)) @@ ("f" :> Tenths(90)) @@ Sizes3030 @@ EmptyData,
     ("f" :> Tenths(40)) @@ ("r" :> Tenths(3)) @@ ("n" :> Num(40)) @@ Sizes3030 @@ EmptyData,
     ("f" :> Tenths(40)) @@ ("r" :> Tenths(3)) @@ ("n" :> Num(40)) @@ EmptyData,
     ("hedges_g" :> Tenths(5)) @@ ("se_g" :> Tenths(1)) @@ ("n" :> Null) @@ Sizes3030
        @@ EmptyData,
     ("hedges_g" :> Tenths(5)) @@ ("se_g" :> Tenths(1)) @@ ("n" :> Num(60)) @@ Sizes3030
        @@ EmptyData,
     ("cohens_d" :> Tenths(5)) @@ ("n" :> StrVal) @@ Sizes3030 @@ EmptyData,
     ("t" :> Tenths(20)) @@ ("n" :> Null) @@ Sizes3030 @@ EmptyData}

DataDomain ==
    DirectData \cup CohensDData \cup MeansData \cup PrePostData \cup TData \cup FData
    \cup RData \cup MixedData

\* extract_effect_size(data) is called and returns
ExtractEffectSize ==
    /\ pc = "calc_call"
    /\ es_result' = extract_effect_size(data)
    /\ pc' = "calc_done"
    /\ UNCHANGED <<synthVarsButPc, batchVars, qaVars, data, analysisVars>>

InitCalc ==
    /\ data \in DataDomain
    /\ es_result = NoExtraction
    /\ pc = "calc_call"
    /\ SynthIdle
    /\ BatchIdle
    /\ QAIdle
    /\ AnalysisIdle

NextCalc == ExtractEffectSize

SpecCalc == InitCalc /\ [][NextCalc]_vars


-----------------------------------------------------------------------------
(* Properties of extract_effect_size *)

\* the shapes in priority order with the fields each requires
ShapeOrder ==
    <<[method |-> "direct_hedges_g",    fields |-> {"hedges_g"}],
      [method |-> "cohen_d_conversion", fields |-> {"cohens_d", "n1", "n2"}],
      [method |-> "means_sds",          fields |-> {"m1", "m2", "sd1", "sd2", "n1", "n2"}],
      [method |-> "prepost",            fields |-> {"m_pre", "m_post", "sd_pre", "sd_post", "n"}],
      [method |-> "t_statistic",        fields |-> {"t", "n1", "n2"}],
      [method |-> "f_statistic",        fields |-> {"f", "n1", "n2"}],
      [method |-> "correlation",        fields |-> {"r", "n"}]>>

\* a field is present when the record has the key; a null g or d counts as
\* not reported
Present(d, k) == d[k] # NoKey /\ (k \in {"hedges_g", "cohens_d"} => d[k] # Null)

Complete(d, i) == \A k \in ShapeOrder[i].fields : Present(d, k)

FirstCompleteShape(d) ==
    IF \E i \in 1..Len(ShapeOrder) : Complete(d, i)
    THEN ShapeOrder[CHOOSE i \in 1..Len(ShapeOrder) :
                        Complete(d, i) /\ \A h \in 1..(i - 1) : ~Complete(d, h)].method
    ELSE "None"

\* C15: extract_effect_size performs exactly one conversion, that of the
\* first shape in the order direct g, d, means/SDs, pre-post, t, F, r whose
\* required fields are all present; no other shape is tried, and the method
\* of the result is never that of another shape.
C15_FirstCompleteShapeWins ==
    es_result.returned =>
        /\ Shape(data) = FirstCompleteShape(data)
        /\ es_result.method \in {"None", FirstCompleteShape(data)}


ConversionRaises(d) ==
    LET c == Convert(d, Shape(d)) IN c.g = Raised \/ c.se = Raised

Validation(d) ==
    LET c == Convert(d, Shape(d))
    IN  validate_effect_size(c.g, c.se, GroupSize(d, "n1"), GroupSize(d, "n2"),
                             default_max_g, default_min_n)

\* the conversion returns, but g or se is not a number
ConversionYieldsNaN(d) ==
    LET c == Convert(d, Shape(d)) IN ~ConversionRaises(d) /\ NaN \in {c.g, c.se}

\* no shape is recognized, or the conversion raises or yields no number, or
\* the validation raises or finds an issue
ExtractionFails(d) ==
    \/ Shape(d) = "None"
    \/ ConversionRaises(d)
    \/ ConversionYieldsNaN(d)
    \/ Validation(d).raised
    \/ ~Validation(d).valid

\* C16: for any input mapping (fields missing, null, non-numeric, zero or
\* negative) extract_effect_size returns a result and never raises; whenever
\* no shape is recognized or the conversion or the validation fails, the
\* result has valid = false and a non-empty issues list.
C16_NeverRaisesInvalidOnFailure ==
    /\ pc = "calc_done" => es_result.returned
    /\ es_result.returned =>
          /\ Raised \notin {es_result.g, es_result.se}
          /\ ExtractionFails(data) => ~es_result.valid /\ es_result.issues # << >>

\* C17: every result with valid = true has a strictly positive standard
\* error, for every input shape, including a directly reported g whose se is
\* zero, negative or absent.
C17_ValidHasPositiveSe ==
    (es_result.returned /\ es_result.valid) =>
        /\ es_result.se.kind \in {"num", "inf"}
        /\ es_result.se.val > 0

\* C18: every result in which g is non-null carries a ci_95, and it equals
\* [g - 1.96 se, g + 1.96 se] for the g and se of the same result.
C18_CiAlwaysPresent ==
    (es_result.returned /\ es_result.g # Null) =>
        es_result.ci_95 = <<FSub(es_result.g, FMul(Num((196 * Scale) \div 100), es_result.se)),
                            FAdd(es_result.g, FMul(Num((196 * Scale) \div 100), es_result.se))>>

\* a shape is recognized and its conversion returns a g and an se that are
\* numbers
SuccessfulConversion(d) ==
    Shape(d) # "None" /\ ~ConversionRaises(d) /\ ~ConversionYieldsNaN(d)

\* the size of group k: the record's n1 or n2, else half of its n
GroupN(d, k) ==
    IF d[k] # NoKey THEN d[k]
    ELSE IF IsNum(d["n"]) THEN Num(d["n"].val \div 2)
    ELSE IF d["n"] = NoKey THEN Num(0) ELSE Null

AtLeast(v, m) == IsNum(v) /\ v.val >= m

\* C19: after a successful conversion the result is valid if and only if
\* |g| <= 5.0 and the sample size of every group is at least 10; a standard
\* error outside the plausible band only adds a warning.
C19_ValidIffMagnitudeAndSizes ==
    (es_result.returned /\ SuccessfulConversion(data)) =>
        (es_result.valid <=>
            /\ es_result.g.kind = "num"
            /\ Abs(es_result.g.val) <= 5 * Scale
            /\ AtLeast(GroupN(data, "n1"), 10)
            /\ AtLeast(GroupN(data, "n2"), 10))


\* J = 1 - 3 / (4 dof - 1)
CorrectionJ(dof) == FSub(FromInt(1), FDiv(FromInt(3), FromInt(4 * dof - 1), FALSE))

\* the two group sizes a path works with: n1 and n2, or for r the two halves
\* of n
PathGroups(d, method) ==
    IF method = "correlation" THEN <<d["n"].val \div 2, d["n"].val \div 2>>
    ELSE <<d["n1"].val, d["n2"].val>>

\* Cohen's d of the record, before any correction, for each path
CohensD(d, method) ==
    LET n1 == PathGroups(d, method)[1]
        n2 == PathGroups(d, method)[2]
        root == FSqrt(FDiv(FromInt(n1 + n2), FromInt(n1 * n2), FALSE))
        pooled == FSqrt(FDiv(FAdd(FMul(FromInt(n1 - 1), FMul(d["sd1"], d["sd1"])),
                                  FMul(FromInt(n2 - 1), FMul(d["sd2"], d["sd2"]))),
                             FromInt(n1 + n2 - 2), FALSE))
    IN  CASE method = "cohen_d_conversion" -> d["cohens_d"]
          [] method = "means_sds" -> FDiv(FSub(d["m1"], d["m2"]), pooled, TRUE)
          [] method = "t_statistic" -> FMul(d["t"], root)
          [] method = "f_statistic" -> FMul(FSqrt(d["f"]), root)
          [] method = "correlation" ->
                FDiv(FMul(FromInt(2), d["r"]),
                     FSqrt(FSub(FromInt(1), FMul(d["r"], d["r"]))), TRUE)
          [] method = "prepost" ->
                FDiv(FSub(d["m_post"], d["m_pre"]),
                     FDiv(FAdd(d["sd_pre"], d["sd_post"]), FromInt(2), FALSE), FALSE)

\* the standard error that belongs to g on each path
SeOfG(d, method, g) ==
    LET n1 == PathGroups(d, method)[1]
        n2 == PathGroups(d, method)[2]
        r  == IF d["r_prepost"] = NoKey THEN Num(Scale \div 2) ELSE d["r_prepost"]
    IN  IF method = "prepost"
        THEN FSqrt(FAdd(FDiv(FMul(FromInt(2), FSub(FromInt(1), r)), FromInt(d["n"].val), FALSE),
                        FDiv(FMul(g, g), FromInt(2 * d["n"].val), FALSE)))
        ELSE FSqrt(FAdd(FDiv(FromInt(n1 + n2), FromInt(n1 * n2), FALSE),
                        FDiv(FMul(g, g), FromInt(2 * (n1 + n2)), TRUE)))

DPaths == {"cohen_d_conversion", "means_sds", "t_statistic", "f_statistic", "correlation"}

\* C20: every path through Cohen's d (direct d, means/SDs, t, F, r) returns
\* g = d J with J = 1 - 3 / (4 (n1 + n2 - 2) - 1), the pre-post path returns
\* g = d J with J from df = n - 1; no path returns the uncorrected d as g, and
\* the standard error is computed from the corrected g.
C20_SmallSampleCorrection ==
    (es_result.returned /\ es_result.method \in DPaths \cup {"prepost"}) =>
        LET method == es_result.method
            d   == CohensD(data, method)
            dof == IF method = "prepost" THEN data["n"].val - 1
                   ELSE PathGroups(data, method)[1] + PathGroups(data, method)[2] - 2
        IN  /\ es_result.g = FMul(d, CorrectionJ(dof))
            /\ (d.kind = "num" /\ d.val # 0) => es_result.g # d
            /\ es_result.se = SeOfG(data, method, es_result.g)

\* a t statistic converted to a valid g that is smaller in size than its d
C20_Witness ==
    /\ es_result.returned
    /\ es_result.method = "t_statistic"
    /\ es_result.valid
    /\ Abs(es_result.g.val) < Abs(CohensD(data, "t_statistic").val)
    /\ es_result.se.val > 0


-----------------------------------------------------------------------------
(* The random-effects engine: cochrans_q and tau_squared_dl                *)
(* (analysis/Python/effect_size_validation.py) and the three copies of     *)
(* random_effects_meta (analysis/Python/report_generator.py,               *)
(* figure_generation/generate_forest_plots.py and generate_funnel_plots.py) *)
(* The arrays are numpy arrays, so a division by zero in them is inf or    *)
(* nan; scipy is absent, so the except ImportError branches run.           *)

RECURSIVE FSum(_)
FSum(xs) == IF xs = << >> THEN Num(0) ELSE FAdd(Head(xs), FSum(Tail(xs)))

\* w = 1.0 / se ** 2
Weights(st) == [i \in 1..Len(st) |-> FDiv(FromInt(1), FMul(st[i].se, st[i].se), TRUE)]

\* g_fixed = np.sum(w * g) / np.sum(w)
FixedEstimate(st) ==
    LET w == Weights(st)
    IN  FDiv(FSum([i \in 1..Len(st) |-> FMul(w[i], st[i].g)]), FSum(w), TRUE)

\* Q = np.sum(w * (g - g_fixed) ** 2)
QStatistic(st) ==
    LET w == Weights(st)
        g_fixed == FixedEstimate(st)
    IN  FSum([i \in 1..Len(st) |->
                 FMul(w[i], FMul(FSub(st[i].g, g_fixed), FSub(st[i].g, g_fixed)))])

\* c = np.sum(w) - np.sum(w ** 2) / np.sum(w)
ScalingC(st) ==
    LET w == Weights(st)
    IN  FSub(FSum(w), FDiv(FSum([i \in 1..Len(st) |-> FMul(w[i], w[i])]), FSum(w), TRUE))

\* the quotient returned as it is
NoClamp(x) == x

\* max(0.0, x): x when x > 0.0, else 0.0, so nan gives 0.0
ClampAtZero(x) == IF x = Raised THEN Raised ELSE IF FLt(Num(0), x) THEN x ELSE Num(0)

\* tau2 = max(0.0, (Q - (k - 1)) / c); numpy is FALSE where Q and c were made
\* Python floats first
DLTau2(st, numpy) ==
    ClampAtZero(FDiv(FSub(QStatistic(st), FromInt(Len(st) - 1)), ScalingC(st), numpy))


\* (Q - df) / Q * 100 to the precision of one unit, for Q > df >= 0
Percent(a, b) == Quot(a * 100, b) * Scale + Quot(((a * 100) % b) * Scale, b)

\* I2 = max(0.0, (Q - df) / Q * 100) if Q > 0 else 0.0
ISquared(Q, dof) ==
    IF Q.kind # "num" \/ Q.val <= dof * Scale THEN 0
    ELSE Percent(Q.val - dof * Scale, Q.val)

\* round(v, 1) for v >= 0: the nearest multiple of 0.1, a tie to the even one
RoundTenth(v) ==
    LET u == Scale \div 10
        q == v \div u
        r == v % u
    IN  IF 2 * r > u \/ (2 * r = u /\ q % 2 = 1) THEN (q + 1) * u ELSE q * u

\* lines 241-248 of effect_size_validation.py
Interpretation(I2) ==
    IF I2 < 25 * Scale THEN "Low heterogeneity"
    ELSE IF I2 < 50 * Scale THEN "Moderate heterogeneity"
    ELSE IF I2 < 75 * Scale THEN "Substantial heterogeneity"
    ELSE "Considerable heterogeneity"

\* np.exp(-x) for x >= 0, by halving the argument and squaring
RECURSIVE ExpNeg(_)
ExpNeg(x) ==
    IF x > Scale \div 8
    THEN LET h == ExpNeg(x \div 2) IN (h * h) \div Scale
    ELSE Scale - x + (x * x) \div (2 * Scale) - (x * x * x) \div (6 * Scale * Scale)

\* np.exp(-0.5 * max(0, Q - df))
ExpFallback(Q, dof) ==
    IF Q.kind = "inf" /\ Q.val > 0 THEN 0
    ELSE IF Q.kind # "num" \/ Q.val <= dof * Scale THEN Scale
    ELSE ExpNeg((Q.val - dof * Scale) \div 2)

\* generate_forest_plots.py line 78: 1 - float(np.exp(-0.5 * max(0, Q - (k - 1))))
ForestPQ(Q, dof) == Scale - ExpFallback(Q, dof)

\* effect_size_validation.py lines 213-257
cochrans_q(st) ==
    LET Q   == QStatistic(st)
        dof == Len(st) - 1
        I2  == ISquared(Q, dof)
        p_Q == ExpFallback(Q, dof)
    IN  [Q |-> Q, df |-> dof, p_Q |-> p_Q, I2 |-> RoundTenth(I2),
         interpretation |-> Interpretation(I2),
         significant_heterogeneity |-> p_Q < Scale \div 10]

\* effect_size_validation.py lines 260-297
tau_squared_dl(st) ==
    LET tau2 == DLTau2(st, TRUE)
    IN  [tau2 |-> tau2, tau |-> FSqrt(tau2)]

\* report_generator.py lines 23-66; Q and c are made Python floats, so a zero
\* c raises ZeroDivisionError
report_random_effects_meta(st) ==
    LET Q    == QStatistic(st)
        dof  == Len(st) - 1
        tau2 == DLTau2(st, FALSE)
    IN  IF tau2 = Raised THEN [raised |-> TRUE]
        ELSE [raised |-> FALSE, k |-> Len(st), Q |-> Q, df_Q |-> dof,
              p_Q |-> ExpFallback(Q, dof), I2 |-> RoundTenth(ISquared(Q, dof)),
              tau2 |-> tau2, tau |-> FSqrt(tau2)]

\* generate_forest_plots.py lines 30-83
forest_random_effects_meta(st) ==
    LET Q   == QStatistic(st)
        dof == Len(st) - 1
        tau2 == DLTau2(st, TRUE)
    IN  [k |-> Len(st), Q |-> Q, df |-> dof, p_Q |-> ForestPQ(Q, dof),
         I2 |-> ISquared(Q, dof), tau2 |-> tau2, tau |-> FSqrt(tau2)]

\* generate_funnel_plots.py lines 28-53
funnel_random_effects_meta(st) ==
    LET Q   == QStatistic(st)
        dof == Len(st) - 1
        tau2 == DLTau2(st, TRUE)
        w_re == [i \in 1..Len(st) |->
                    FDiv(FromInt(1), FAdd(FMul(st[i].se, st[i].se), tau2), TRUE)]
        pooled_g == FDiv(FSum([i \in 1..Len(st) |-> FMul(w_re[i], st[i].g)]), FSum(w_re), TRUE)
        se_pooled == FSqrt(FDiv(FromInt(1), FSum(w_re), TRUE))
    IN  [k |-> Len(st), pooled_g |-> pooled_g, se_pooled |-> se_pooled,
         ci_lower |-> FSub(pooled_g, FMul(Num(Z196), se_pooled)),
         ci_upper |-> FAdd(pooled_g, FMul(Num(Z196), se_pooled)),
         Q |-> Q, df |-> dof, I2 |-> ISquared(Q, dof), tau2 |-> tau2]

EngineFunctions ==
    {"cochrans_q", "tau_squared_dl", "report_random_effects_meta",
     "forest_random_effects_meta", "funnel_random_effects_meta"}

\* what the function named fn returns for the arrays
EngineResult(fn, st) ==
    CASE fn = "cochrans_q" -> cochrans_q(st)
      [] fn = "tau_squared_dl" -> tau_squared_dl(st)
      [] fn = "report_random_effects_meta" -> report_random_effects_meta(st)
      [] fn = "forest_random_effects_meta" -> forest_random_effects_meta(st)
      [] fn = "funnel_random_effects_meta" -> funnel_random_effects_meta(st)

\* one of the five functions is called on the arrays and returns
CallEngine(fn) ==
    /\ pc = "analysis"
    /\ fn \notin DOMAIN meta
    /\ meta' = (fn :> EngineResult(fn, studies)) @@ meta
    /\ UNCHANGED <<pc, synthVarsButPc, batchVars, qaVars, calcVars, studies, funnelVars, trimVars,
                 kappaVars, pipeVars>>

St(g, se) == [g |-> g, se |-> se]

\* the studies the arrays are made of
MetaStudies ==
    {St(Num(0), Tenths(5)), St(Num(0), Tenths(10)), St(Tenths(5), Tenths(10)),
     St(Tenths(20), Tenths(5)), St(Tenths(20), Tenths(20)),
     St(Num((2828 * Scale) \div 1000), Tenths(10))}

MaxK == 3    \* studies in the arrays

StudyArrays == UNION {[1..k -> MetaStudies] : k \in 1..MaxK}

InitMeta ==
    /\ studies \in StudyArrays
    /\ meta = << >>
    /\ pc = "analysis"
    /\ SynthIdle /\ BatchIdle /\ QAIdle /\ CalcIdle /\ FunnelIdle /\ TrimIdle
    /\ KappaIdle /\ PipeIdle

NextMeta == \E fn \in EngineFunctions : CallEngine(fn)

SpecMeta == InitMeta /\ [][NextMeta]_vars


-----------------------------------------------------------------------------
(* Properties of the random-effects engine *)

\* the functions that estimate tau2
Tau2Functions == EngineFunctions \ {"cochrans_q"}

\* C21: for arrays of k >= 2 studies with every se > 0, the
\* DerSimonian-Laird tau2 of tau_squared_dl and of every copy of
\* random_effects_meta is never negative, and it is exactly 0 whenever
\* Q <= k - 1.
C21_Tau2NeverNegative ==
    Len(studies) >= 2 =>
        \A fn \in DOMAIN meta \cap Tau2Functions :
            /\ fn = "report_random_effects_meta" => ~meta[fn].raised
            /\ meta[fn].tau2.kind = "num"
            /\ meta[fn].tau2.val >= 0
            /\ ~FLt(FromInt(Len(studies) - 1), QStatistic(studies)) => meta[fn].tau2 = Num(0)

\* the four functions have returned for arrays of three studies with Q below
\* k - 1, where the unclamped quotient is negative
C21_Witness ==
    /\ Len(studies) = 3
    /\ Tau2Functions \subseteq DOMAIN meta
    /\ FLt(QStatistic(studies), FromInt(2))
    /\ FLt(Num(0), QStatistic(studies))
    /\ \A fn \in Tau2Functions : meta[fn].tau2 = Num(0)


\* the band of an I2 value: Low below 25, Moderate below 50, Substantial
\* below 75, else Considerable
BandOf(I2) ==
    CASE I2 < 25 * Scale -> "Low heterogeneity"
      [] I2 >= 25 * Scale /\ I2 < 50 * Scale -> "Moderate heterogeneity"
      [] I2 >= 50 * Scale /\ I2 < 75 * Scale -> "Substantial heterogeneity"
      [] OTHER -> "Considerable heterogeneity"

\* the reported I2 lies in [0, 100] and is 0 when Q = 0 or Q <= df
I2InRange ==
    "cochrans_q" \in DOMAIN meta =>
        LET r == meta["cochrans_q"]
        IN  /\ r.I2 >= 0 /\ r.I2 <= 100 * Scale
            /\ ~FLt(FromInt(r.df), r.Q) => r.I2 = 0

\* C22: for any Q >= 0 and df = k - 1 >= 0 the reported I2 lies in [0, 100],
\* it is 0 when Q = 0 or Q <= df, and the interpretation is the band of the
\* reported I2: Low (< 25), Moderate (< 50), Substantial (< 75), else
\* Considerable.
C22_I2AndInterpretation ==
    /\ I2InRange
    /\ "cochrans_q" \in DOMAIN meta =>
          meta["cochrans_q"].interpretation = BandOf(meta["cochrans_q"].I2)

\* the copies that report an approximate p_Q
PQFunctions ==
    {"cochrans_q", "report_random_effects_meta", "forest_random_effects_meta"}

\* the copy fn returned a p_Q
ReportsPQ(fn) ==
    /\ fn \in DOMAIN meta
    /\ fn = "report_random_effects_meta" => ~meta[fn].raised

\* the significance flag p_Q < 0.10 taken from the copy fn
Significant(fn) == meta[fn].p_Q < Scale \div 10

\* C23: the copies agree on the approximate p_Q: the forest plot's value equals
\* the exponential fallback of cochrans_q and of the report generator, every
\* copy reports p_Q = 1 when Q <= df, and the flag p_Q < 0.10 is the same
\* whichever copy is used.
C23_CopiesAgreeOnPQ ==
    \A fn \in PQFunctions : \A other \in PQFunctions :
        ReportsPQ(fn) /\ ReportsPQ(other) =>
            /\ meta[fn].p_Q = meta[other].p_Q
            /\ Significant(fn) = Significant(other)
            /\ ~FLt(FromInt(Len(studies) - 1), QStatistic(studies)) =>
                   meta[fn].p_Q = Scale

-----------------------------------------------------------------------------
(* Egger's regression test: generate_funnel_plots.py lines 56-110 *)

min_egger_studies == 5

\* the two-tailed 5% point of Student's t: 2 * t.sf(|t|, df) < 0.05 exactly
\* when |t| is above it
TCritical(dof) ==
    CASE dof = 3 -> Num((3182 * Scale) \div 1000)
      [] dof = 4 -> Num((2776 * Scale) \div 1000)
      [] dof = 5 -> Num((2571 * Scale) \div 1000)
      [] OTHER   -> Num((2447 * Scale) \div 1000)

\* a p-value, kept as its position relative to 0.05
PValue(below) == [kind |-> "p", below_05 |-> below]

\* lines 97-101
EggerInterpretation(p_value) ==
    IF p_value # Null /\ p_value.below_05
    THEN "Significant asymmetry detected (possible publication bias)"
    ELSE "No significant asymmetry detected"

\* eggers_test(g, se).  np.linalg.solve raises LinAlgError on a singular
\* XtW @ X; the handler of line 92 then reads intercept, which was never
\* bound, and the UnboundLocalError leaves the function.  A failed import of
\* scipy reaches the same handler with intercept, se_intercept and df bound.
eggers_test(st, has_scipy) ==
    IF Len(st) < min_egger_studies
    THEN [called |-> TRUE, raised |-> FALSE, error |-> TRUE]
    ELSE
    LET n          == Len(st)
        precision  == [i \in 1..n |-> FDiv(FromInt(1), st[i].se, TRUE)]
        std_effect == [i \in 1..n |-> FDiv(st[i].g, st[i].se, TRUE)]
        p2         == [i \in 1..n |-> FMul(precision[i], precision[i])]
        \* XtW @ X = [[a11, a12], [a12, a22]], XtW @ std_effect = [b1, b2]
        a11        == FSum(precision)
        a12        == FSum(p2)
        a22        == FSum([i \in 1..n |-> FMul(p2[i], precision[i])])
        b1         == FSum([i \in 1..n |-> FMul(precision[i], std_effect[i])])
        b2         == FSum([i \in 1..n |-> FMul(p2[i], std_effect[i])])
        det        == FSub(FMul(a11, a22), FMul(a12, a12))
        intercept  == FDiv(FSub(FMul(a22, b1), FMul(a12, b2)), det, TRUE)
        slope      == FDiv(FSub(FMul(a11, b2), FMul(a12, b1)), det, TRUE)
        residuals  == [i \in 1..n |->
                          FSub(std_effect[i], FAdd(intercept, FMul(slope, precision[i])))]
        dof        == n - 2
        mse        == FDiv(FSum([i \in 1..n |->
                                    FMul(precision[i], FMul(residuals[i], residuals[i]))]),
                           FromInt(dof), TRUE)
        se_intercept == FSqrt(FMul(mse, FDiv(a22, det, TRUE)))
        t_stat     == FDiv(intercept, se_intercept, TRUE)
        p_value    == IF has_scipy THEN PValue(FLt(TCritical(dof), FAbs(t_stat))) ELSE Null
    IN  IF det = Num(0)
        THEN [called |-> TRUE, raised |-> TRUE]
        ELSE [called |-> TRUE, raised |-> FALSE, error |-> FALSE,
              intercept |-> intercept, se_intercept |-> se_intercept,
              t_statistic |-> t_stat, p_value |-> p_value, df |-> dof,
              interpretation |-> EggerInterpretation(p_value)]

CallEggersTest ==
    /\ pc = "egger"
    /\ ~egger.called
    /\ egger' = eggers_test(studies, scipy)
    /\ UNCHANGED <<pc, synthVarsButPc, batchVars, qaVars, calcVars, metaVars, scipy, trimVars,
                 kappaVars, pipeVars>>

\* the studies of the funnel plot
FunnelStudies ==
    {St(Num(0), Tenths(10)), St(Tenths(20), Tenths(10)), St(Tenths(20), Tenths(20))}

FunnelK == 5    \* studies in the arrays

FunnelArrays == UNION {[1..k -> FunnelStudies] : k \in 0..FunnelK}

InitEgger ==
    /\ studies \in FunnelArrays
    /\ scipy \in BOOLEAN
    /\ egger = NoEgger
    /\ meta = << >>
    /\ pc = "egger"
    /\ SynthIdle /\ BatchIdle /\ QAIdle /\ CalcIdle /\ TrimIdle
    /\ KappaIdle /\ PipeIdle

NextEgger == CallEggersTest

SpecEgger == InitEgger /\ [][NextEgger]_vars

-----------------------------------------------------------------------------
(* Properties of Egger's test *)

\* C24: eggers_test always returns a result and never raises: with fewer than
\* 5 studies the result is the explicit insufficient-data one, with 5 or more
\* it carries intercept, t, p and an interpretation, also when the weighted
\* regression fails numerically.
C24_EggerAlwaysReturns ==
    egger.called =>
        /\ ~egger.raised
        /\ egger.error <=> Len(studies) < min_egger_studies
        /\ ~egger.error =>
               {"intercept", "t_statistic", "p_value", "interpretation"} \subseteq DOMAIN egger

-----------------------------------------------------------------------------
(* Trim and fill: generate_funnel_plots.py lines 113-196 *)

default_max_iter == 20

\* pooled.get('pooled_g', np.mean(g)): random_effects_meta returns {} for no
\* studies and the mean of an empty array is nan
PooledCenter(st) ==
    IF Len(st) = 0 THEN NaN ELSE funnel_random_effects_meta(st).pooled_g

\* the position of element i in np.argsort(keys), counted from 0
RankOf(keys, i) ==
    Cardinality({j \in 1..Len(keys) :
                    keys[j] < keys[i] \/ (keys[j] = keys[i] /\ j < i)})

\* np.argsort(keys), as indices from 1
ArgSort(keys) ==
    [r \in 1..Len(keys) |-> CHOOSE i \in 1..Len(keys) : RankOf(keys, i) = r - 1]

\* Python round() of a / b
RoundRatio(a, b) ==
    LET s  == IF b < 0 THEN 0 - 1 ELSE 1
        a2 == s * a
        b2 == s * b
        q  == (2 * a2 + b2) \div (2 * b2)
    IN  IF (2 * a2 + b2) % (2 * b2) = 0 /\ q % 2 = 1 THEN q - 1 ELSE q

\* max(0, x)
Max0(x) == IF x > 0 THEN x ELSE 0

\* lines 146-162: the estimate of the number of missing studies
EstimateK0(st, sd, center) ==
    LET n          == Len(st)
        deviations == [i \in 1..n |-> FSub(st[i].g, center)]
        keys       == [i \in 1..n |->
                          IF sd = "left" THEN deviations[i].val ELSE 0 - deviations[i].val]
        counted    == {i \in 1..n : IF sd = "left" THEN FLt(deviations[i], Num(0))
                                                   ELSE FLt(Num(0), deviations[i])}
        T_n        == FSum([r \in 1..n |->
                              IF ArgSort(keys)[r] \in counted THEN Num(r) ELSE Num(0)]).val
    IN  Max0(RoundRatio(4 * T_n - n * (n + 1), 2 * n - 1))

\* the flag that is never cleared
AlwaysConverged(now, prev) == TRUE

\* line 195
Converged(now, prev) == now = prev

\* lines 173-181: the imputed studies
Imputed(st, sd, n0, center) ==
    LET n        == Len(st)
        gkeys    == [i \in 1..n |-> st[i].g.val]
        sorted_g == [r \in 1..n |-> st[ArgSort(gkeys)[r]].g]
        taken    == [j \in 1..n0 |-> IF sd = "left" THEN sorted_g[n + 1 - j] ELSE sorted_g[j]]
        dist     == [i \in 1..n |-> FAbs(FSub(st[i].g, center)).val]
    IN  [j \in 1..n0 |->
            St(FSub(FMul(FromInt(2), center), taken[j]), st[ArgSort(dist)[j]].se)]

\* one pass of the loop body past line 137
TrimRound ==
    /\ pc = "trim_loop"
    /\ iteration < max_iter
    /\ k0 # k0_prev
    /\ \E center \in {PooledCenter(studies)} :
       \E est \in {EstimateK0(studies, side, center)} :
           /\ k0_prev' = k0
           /\ iteration' = iteration + 1
           /\ IF est >= Len(studies)
              THEN k0' = Max0(Len(studies) - 1) /\ pc' = "trim_impute"
              ELSE k0' = est /\ pc' = "trim_loop"
    /\ UNCHANGED <<synthVarsButPc, batchVars, qaVars, calcVars, metaVars, funnelVars,
                   side, max_iter, studies_adj, trim_result, kappaVars, pipeVars>>

\* the loop ends: range(max_iter) is used up, or line 138 breaks
TrimLoopEnds ==
    /\ pc = "trim_loop"
    /\ iteration >= max_iter \/ k0 = k0_prev
    /\ pc' = "trim_impute"
    /\ UNCHANGED <<synthVarsButPc, batchVars, qaVars, calcVars, metaVars, funnelVars, trimVars,
                   kappaVars, pipeVars>>

\* lines 169-196
TrimImputeAndReturn ==
    /\ pc = "trim_impute"
    /\ \E center \in {PooledCenter(studies)} :
           studies_adj' = IF k0 > 0 THEN studies \o Imputed(studies, side, k0, center)
                          ELSE studies
    /\ \E adjusted \in {IF Len(studies_adj') = 0 THEN << >>
                         ELSE funnel_random_effects_meta(studies_adj')} :
       LET Get(key) == IF key \in DOMAIN adjusted THEN adjusted[key] ELSE Null
       IN  trim_result' = [returned |-> TRUE, k0_imputed |-> k0,
                           adjusted_pooled_g |-> Get("pooled_g"),
                           adjusted_ci_lower |-> Get("ci_lower"),
                           adjusted_ci_upper |-> Get("ci_upper"),
                           adjusted_se |-> Get("se_pooled"),
                           converged |-> Converged(k0, k0_prev)]
    /\ pc' = "trim_done"
    /\ UNCHANGED <<synthVarsButPc, batchVars, qaVars, calcVars, metaVars, funnelVars,
                   side, max_iter, k0, k0_prev, iteration, kappaVars, pipeVars>>

MaxIters == {0, 1, 2, default_max_iter}

InitTrim ==
    /\ studies \in FunnelArrays
    /\ side \in {"left", "right"}
    /\ max_iter \in MaxIters
    /\ k0 = 0
    /\ k0_prev = 0 - 1
    /\ iteration = 0
    /\ studies_adj = << >>
    /\ trim_result = NoTrim
    /\ meta = << >>
    /\ pc = "trim_loop"
    /\ SynthIdle /\ BatchIdle /\ QAIdle /\ CalcIdle /\ FunnelIdle
    /\ KappaIdle /\ PipeIdle

NextTrim == TrimRound \/ TrimLoopEnds \/ TrimImputeAndReturn

SpecTrim == InitTrim /\ [][NextTrim]_vars

\* the function keeps running until its return statement: a step is possible
\* in every state before "trim_done", so weak fairness of the step is that
\* steps keep being taken unless the function has returned
SpecTrimFair == SpecTrim /\ ([]<>(pc = "trim_done") \/ []<><<NextTrim>>_vars)

-----------------------------------------------------------------------------
(* Properties of trim and fill *)

\* the estimate of the round reached the number of studies (line 164)
CapReached ==
    \E center \in {PooledCenter(studies)} :
        EstimateK0(studies, side, center) >= Len(studies)

\* what holds of the loop and of the returned flag in every state
TrimLoopBounded ==
    /\ iteration <= max_iter
    /\ pc = "trim_loop" /\ k0 = k0_prev => ~ENABLED TrimRound
    /\ pc \in {"trim_impute", "trim_done"} /\ iteration < max_iter =>
           k0 = k0_prev \/ CapReached
    /\ trim_result.returned =>
           /\ trim_result.k0_imputed = k0
           /\ trim_result.converged => k0 = k0_prev
           /\ k0 # k0_prev => ~trim_result.converged

\* C25: trim_and_fill returns after at most max_iter estimation rounds; it
\* stops early when k0 is unchanged between two rounds or when the estimate
\* reaches k; converged is true only if the final k0 equals the k0 before the
\* last round, so a run ended by the limit or the cap while k0 was changing
\* returns converged = false.
C25_TrimTerminates == []TrimLoopBounded /\ <>(trim_result.returned)

\* a run ended by the round limit while k0 was still changing
C25_Witness ==
    /\ trim_result.returned
    /\ iteration = max_iter
    /\ k0 # k0_prev
    /\ ~trim_result.converged

\* the observed studies that are among the n0 most extreme ones on the
\* mirrored side
MostExtreme(st, sd, n0) ==
    {i \in 1..Len(st) :
        Cardinality({j \in 1..Len(st) :
                        IF sd = "left" THEN st[j].g.val > st[i].g.val
                                       ELSE st[j].g.val < st[i].g.val}) < n0}

\* k0 studies are appended to the observed ones and the result is their pool
AppendsK0 ==
    /\ Len(studies_adj) = Len(studies) + k0
    /\ SubSeq(studies_adj, 1, Len(studies)) = studies
    /\ trim_result.adjusted_pooled_g = funnel_random_effects_meta(studies_adj).pooled_g

\* every imputed effect is the mirror image of a most extreme study
MirrorsExtremes ==
    \A center \in {PooledCenter(studies)} :
        \A j \in 1..k0 :
            \E i \in MostExtreme(studies, side, k0) :
                studies_adj[Len(studies) + j].g =
                    FSub(FMul(FromInt(2), center), studies[i].g)

\* C26: when k0 > 0, exactly k0 studies are appended to the observed ones,
\* each the mirror image 2 * center - g_i of one of the k0 most extreme
\* observed studies together with the se_i of that same study, and the
\* adjusted estimate is the pool of the k + k0 studies.
C26_ImputedMirrorWithOwnSe ==
    trim_result.returned /\ k0 > 0 =>
        /\ AppendsK0
        /\ \A center \in {PooledCenter(studies)} :
               \A j \in 1..k0 :
                   \E i \in MostExtreme(studies, side, k0) :
                       studies_adj[Len(studies) + j] =
                           St(FSub(FMul(FromInt(2), center), studies[i].g), studies[i].se)

-----------------------------------------------------------------------------
(* Cohen's kappa: phase5_human_icr.py lines 20-50 *)

\* the comparison that never finds 1.0
NeverOne(x) == FALSE

\* line 45: expected_agree == 1.0
ExpectedIsOne(x) == x = FromInt(1)

\* cohens_kappa(rater1, rater2): the assert of line 30 fails on lists of
\* different lengths and line 36 divides by zero on empty lists
cohens_kappa(r1, r2) ==
    IF Len(r1) # Len(r2) \/ Len(r1) = 0 THEN Raised
    ELSE
    LET categories     == Range(r1) \cup Range(r2)
        n              == Len(r1)
        observed_agree == FDiv(FromInt(Cardinality({i \in 1..n : r1[i] = r2[i]})),
                               FromInt(n), FALSE)
        product        == [cat \in categories |->
                              FMul(FDiv(FromInt(Count(r1, cat)), FromInt(n), FALSE),
                                   FDiv(FromInt(Count(r2, cat)), FromInt(n), FALSE)).val]
        expected_agree == Num(SumOver(categories, product))
    IN  IF ExpectedIsOne(expected_agree) THEN FromInt(1)
        ELSE FDiv(FSub(observed_agree, expected_agree),
                  FSub(FromInt(1), expected_agree), FALSE)

CallCohensKappa ==
    /\ pc = "kappa"
    /\ ~kappa.called
    /\ kappa' = [called |-> TRUE, value |-> cohens_kappa(rater1, rater2)]
    /\ UNCHANGED <<pc, synthVarsButPc, batchVars, qaVars, calcVars, metaVars, funnelVars,
                   trimVars, rater1, rater2, pipeVars>>

RatingCategories == {"autonomous", "checkpoint", "human_led"}

MaxRatings == 3    \* ratings in a list

RatingLists == UNION {[1..n -> RatingCategories] : n \in 0..MaxRatings}

InitKappa ==
    /\ rater1 \in RatingLists
    /\ rater2 \in RatingLists
    /\ kappa = NoKappa
    /\ pc = "kappa"
    /\ SynthIdle /\ BatchIdle /\ QAIdle /\ CalcIdle /\ MetaIdle /\ FunnelIdle /\ TrimIdle
    /\ PipeIdle

NextKappa == CallCohensKappa

SpecKappa == InitKappa /\ [][NextKappa]_vars

-----------------------------------------------------------------------------
(* Properties of Cohen's kappa *)

\* C27: cohens_kappa(x, x) = 1.0 for every non-empty list x, with several
\* categories (observed agreement 1) and with one category (expected
\* agreement exactly 1, returned as 1.0 without dividing by zero).
C27_KappaOfSelfIsOne ==
    kappa.called /\ rater1 = rater2 /\ Len(rater1) > 0 => kappa.value = FromInt(1)

\* a constant list compared with itself
C27_Witness ==
    /\ kappa.called
    /\ rater1 = rater2
    /\ Len(rater1) >= 2
    /\ Cardinality(Range(rater1)) = 1
    /\ kappa.value = FromInt(1)

-----------------------------------------------------------------------------
(* Properties of the audit logging in build_consensus (SpecBatch) *)

\* C28: audit logging is a write-only sink: when log_extraction raises after
\* the model's verification returned r, r stays in model_results as it does
\* when logging succeeds (VerifyReturns), and so counts in
\* n_models_completed, the effect-size consensus and the categorical vote,
\* which are computed from model_results.
C28_AuditIsWriteOnly ==
    [][\A r \in BatchResponses :
          AuditLogRaises(r) => model_results' = model_results @@ (NextModel :> r)]_vars

-----------------------------------------------------------------------------
(* PipelineOrchestrator.run_all and run_phase: run_pipeline.py lines 92-174 *)

last_phase == 6

\* the keys of self.phases (lines 49-57)
Phases == 0..last_phase

PhaseRaises == [raised |-> TRUE]

PhaseReturns(mapping) == [raised |-> FALSE, result |-> mapping]

\* What the phase function of phase p can do.  run_qa_final catches its own
\* exceptions and returns success = all_gates_passed, or success = False with
\* an error (phase6_qa_final.py lines 400-447); the other phase functions
\* return a mapping with success true or false, a mapping without 'success',
\* or raise.
PhaseOutcomes(p) ==
    IF p = 6
    THEN {PhaseReturns([success |-> passed, all_gates_passed |-> passed]) : passed \in BOOLEAN}
         \cup {PhaseReturns([success |-> FALSE, error |-> TRUE])}
    ELSE {PhaseReturns([success |-> TRUE]), PhaseReturns([success |-> FALSE]),
          PhaseReturns([error |-> TRUE]), PhaseRaises}

\* a mapping without 'success' counted as a success
ReportsSuccessByDefault(o) ==
    /\ ~o.raised
    /\ "success" \in DOMAIN o.result => o.result.success

\* lines 114-140: result.get('success', False), False after an exception
ReportsSuccess(o) ==
    /\ ~o.raised
    /\ "success" \in DOMAIN o.result
    /\ o.result.success

\* lines 157-158 with a phase that returns true: the loop goes on
RunPhaseSucceeds ==
    /\ pc = "run_all"
    /\ phase_num <= end_phase
    /\ phase_num \in Phases
    /\ \E o \in PhaseOutcomes(phase_num) :
          /\ ReportsSuccess(o)
          /\ phases_run' = Append(phases_run, [phase |-> phase_num, outcome |-> o])
    /\ phase_num' = phase_num + 1
    /\ UNCHANGED <<pc, synthVarsButPc, batchVars, qaVars, calcVars, metaVars, funnelVars,
                   trimVars, kappaVars, start_phase, end_phase, reports, run_all_result>>

\* lines 157-163: run_phase returns false, for a number that is no phase
\* (lines 102-104) without calling anything; the report is written and
\* run_all returns False
RunPhaseHalts ==
    /\ pc = "run_all"
    /\ phase_num <= end_phase
    /\ \/ /\ phase_num \notin Phases
          /\ phases_run' = phases_run
       \/ /\ phase_num \in Phases
          /\ \E o \in PhaseOutcomes(phase_num) :
                /\ ~ReportsSuccess(o)
                /\ phases_run' = Append(phases_run, [phase |-> phase_num, outcome |-> o])
    /\ reports' = Append(reports, [success |-> FALSE, completed_phase |-> phase_num])
    /\ run_all_result' = [returned |-> TRUE, value |-> FALSE]
    /\ pc' = "run_all_done"
    /\ UNCHANGED <<synthVarsButPc, batchVars, qaVars, calcVars, metaVars, funnelVars,
                   trimVars, kappaVars, start_phase, end_phase, phase_num>>

\* lines 165-173: the range is used up
AllPhasesCompleted ==
    /\ pc = "run_all"
    /\ phase_num > end_phase
    /\ reports' = Append(reports, [success |-> TRUE, completed_phase |-> end_phase])
    /\ run_all_result' = [returned |-> TRUE, value |-> TRUE]
    /\ pc' = "run_all_done"
    /\ UNCHANGED <<synthVarsButPc, batchVars, qaVars, calcVars, metaVars, funnelVars,
                   trimVars, kappaVars, start_phase, end_phase, phase_num, phases_run>>

\* run_all(start_phase, end_phase); 7 is no phase
InitPipeline ==
    /\ start_phase \in Phases
    /\ end_phase \in 0..(last_phase + 1)
    /\ phase_num = start_phase
    /\ phases_run = << >>
    /\ reports = << >>
    /\ run_all_result = NoRunAll
    /\ pc = "run_all"
    /\ SynthIdle /\ BatchIdle /\ QAIdle /\ CalcIdle /\ MetaIdle /\ FunnelIdle /\ TrimIdle
    /\ KappaIdle

NextPipeline == RunPhaseSucceeds \/ RunPhaseHalts \/ AllPhasesCompleted

SpecPipeline == InitPipeline /\ [][NextPipeline]_vars

-----------------------------------------------------------------------------
(* Properties of the orchestrator *)

\* the phase function returned a mapping whose 'success' is true
Succeeded(o) == ~o.raised /\ "success" \in DOMAIN o.result /\ o.result.success

\* the phase function of phase 6 reported a failed quality gate
GateFailed(o) ==
    /\ ~o.raised
    /\ "all_gates_passed" \in DOMAIN o.result
    /\ ~o.result.all_gates_passed

\* every phase of the range was run and succeeded
AllSucceeded ==
    \A p \in start_phase..end_phase :
        \E i \in 1..Len(phases_run) :
            phases_run[i].phase = p /\ Succeeded(phases_run[i].outcome)

\* C29: run_all runs the phases in ascending order from start_phase, starts a
\* phase only after the previous one reported success, runs nothing after a
\* phase that failed or raised, writes the final report exactly once, and
\* returns true exactly when every phase of the range succeeded; a phase 6
\* with a failed quality gate makes it return false.
C29_RunAllInOrder ==
    /\ \A i \in 1..Len(phases_run) :
           /\ phases_run[i].phase = start_phase + i - 1
           /\ phases_run[i].phase <= end_phase
           /\ i < Len(phases_run) => Succeeded(phases_run[i].outcome)
    /\ Len(reports) = IF run_all_result.returned THEN 1 ELSE 0
    /\ run_all_result.returned =>
           /\ run_all_result.value <=> AllSucceeded
           /\ reports[1].success = run_all_result.value
           /\ (\E i \in 1..Len(phases_run) :
                  phases_run[i].phase = 6 /\ GateFailed(phases_run[i].outcome))
                  => ~run_all_result.value

\* the whole pipeline ran and phase 6 reported a failed gate
C29_Witness ==
    /\ run_all_result.returned
    /\ ~run_all_result.value
    /\ start_phase = 0
    /\ Len(phases_run) = 7
    /\ GateFailed(phases_run[7].outcome)

-----------------------------------------------------------------------------
(* Properties of the directory scan of process_all_studies (SpecBatch) *)

\* the ids of the studies phases 1 to 3 wrote a per-study file for
PerStudyIds == {f.base : f \in extracted} \cap Studies

\* no aggregate file gives rise to a study id or a consensus record
NoAggregateIds ==
    /\ study_ids \subseteq PerStudyIds
    /\ attempted \subseteq PerStudyIds
    /\ persisted \subseteq PerStudyIds

\* C30: the study ids Phase 4 builds and persists a consensus record for are
\* exactly the ids phases 1 to 3 wrote a per-study extraction file for; the
\* aggregate files of the same directories give rise to no study id and no
\* consensus record.
C30_ConsensusExactlyForStudies ==
    /\ NoAggregateIds
    /\ pc = "done" => persisted = PerStudyIds

====
